---- MODULE Spec2Model ----
(***************************************************************************)
(* A model of go-backend-template's authentication and authorization core: *)
(* the JWT token service (internal/pkg/auth), the gin access-policy        *)
(* middleware (internal/app/server/middleware/auth), the user service      *)
(* (internal/app/server/service/user) over the postgres repository, and    *)
(* the domain error taxonomy (internal/pkg/domain).                        *)
(*                                                                         *)
(* Go strings are sequences of atoms.  An atom is a code point [ch |-> n]  *)
(* or, inside an Authorization header, the compact serialization of one    *)
(* JWT, [jwt |-> token].  A Go error is the name of its sentinel variable  *)
(* (errors.New values are compared by identity), or a record for the       *)
(* domain error structs.                                                   *)
(***************************************************************************)
EXTENDS Integers, Sequences, FiniteSets, TLC

VARIABLES
    now,            \* the wall clock, in ticks
    config,         \* the JWTConfig read at process start
    jwt,            \* the JWTService built from it
    tokenString,    \* SpecToken: the token string under verification
    issued,         \* SpecToken: the GenerateToken call that made it, if any
    validated,      \* SpecToken: the last ValidateToken call on tokenString
    firstExpired,   \* SpecToken: when tokenString was first reported expired
    ctx,            \* SpecGate: the gin.Context of the request in flight
    validatorCalls, \* SpecGate: ValidateToken calls made for this request
    users,          \* SpecAccount: the rows of the users table
    nextId,         \* SpecAccount: the users_id_seq sequence
    ops,            \* SpecAccount: service calls and requests made so far
    last,           \* SpecAccount: the last service call and what it returned
    response,       \* SpecHandler: the last request and the response to it
    inflight        \* SpecConcurrent: the service call each request flow is in

vars == <<now, config, jwt, tokenString, issued, validated, firstExpired,
          ctx, validatorCalls, users, nextId, ops, last, response, inflight>>

tokenVars == <<tokenString, issued, validated, firstExpired>>
gateVars == <<ctx, validatorCalls>>
accountVars == <<users, nextId, ops, last, response, inflight>>

(***************************************************************************)
(* Bounds of the model.                                                    *)
(***************************************************************************)
\* Clock resolution: the clock counts ticks, TicksPerSecond of them a second.
TicksPerSecond == 2
\* The clock runs from StartTime for MaxTicks ticks.
MaxTicks == 4
\* Service calls per behaviour of SpecAccount.
MaxOps == 3
\* Requests per behaviour of SpecHandler.
MaxRequests == 3
\* UpdateUser calls with several fields in one behaviour.
MaxUpdates == 2

StartTime == 2 * TicksPerSecond
Times == StartTime..(StartTime + MaxTicks)

(***************************************************************************)
(* Strings.                                                                *)
(***************************************************************************)
Nil == [nil |-> TRUE]
NoErr == "nil"

Str(codes) == [i \in 1..Len(codes) |-> [ch |-> codes[i]]]

HasPrefix(s, prefix) ==
    /\ Len(s) >= Len(prefix)
    /\ SubSeq(s, 1, Len(prefix)) = prefix

TrimPrefix(s, prefix) ==
    IF HasPrefix(s, prefix) THEN SubSeq(s, Len(prefix) + 1, Len(s)) ELSE s

RECURSIVE FormatUint(_)
FormatUint(n) ==
    IF n < 10 THEN <<[ch |-> 48 + n]>>
    ELSE Append(FormatUint(n \div 10), [ch |-> 48 + (n % 10)])

\* Itoa with the sign dropped, as if the id were encoded unsigned.
Itoa_Unsigned(n) == FormatUint(IF n < 0 THEN -n ELSE n)

\* strconv.Itoa, and encoding/json's encoding of an int.
Itoa(n) == IF n < 0 THEN <<[ch |-> 45]>> \o FormatUint(-n) ELSE FormatUint(n)

IsDigit(a) == "ch" \in DOMAIN a /\ a.ch \in 48..57

RECURSIVE ParseUint(_)
ParseUint(s) ==
    IF Len(s) = 0 THEN 0
    ELSE 10 * ParseUint(SubSeq(s, 1, Len(s) - 1)) + (s[Len(s)].ch - 48)

\* strconv.Atoi: an optional sign, then one or more decimal digits.
Atoi(s) ==
    LET signed == Len(s) > 0 /\ "ch" \in DOMAIN s[1] /\ s[1].ch \in {43, 45}
        digits == IF signed THEN SubSeq(s, 2, Len(s)) ELSE s
    IN  IF Len(digits) = 0 \/ \E i \in 1..Len(digits) : ~IsDigit(digits[i])
        THEN [ok |-> FALSE, val |-> 0]
        ELSE [ok |-> TRUE,
              val |-> IF signed /\ s[1].ch = 45 THEN -ParseUint(digits)
                      ELSE ParseUint(digits)]

\* encoding/json decoding a number into an int field: "-"? then digits with
\* no leading zero; anything else is an unmarshal error.
UnmarshalInt(s) ==
    LET neg == Len(s) > 0 /\ s[1] = [ch |-> 45]
        digits == IF neg THEN SubSeq(s, 2, Len(s)) ELSE s
    IN  IF \/ Len(digits) = 0
           \/ \E i \in 1..Len(digits) : ~IsDigit(digits[i])
           \/ (Len(digits) > 1 /\ digits[1].ch = 48)
        THEN [ok |-> FALSE, val |-> 0]
        ELSE [ok |-> TRUE,
              val |-> IF neg THEN -ParseUint(digits) ELSE ParseUint(digits)]

\* Go's string(rune(n)): the UTF-8 text of code point n, U+FFFD when n is
\* not a valid code point.  A string is kept as its code points, so the
\* text is the one code point.
StringOfRune(n) ==
    IF n < 0 \/ n > 1114111 \/ n \in 55296..57343
    THEN <<[ch |-> 65533]>>
    ELSE <<[ch |-> n]>>

(***************************************************************************)
(* entity: roles.                                                          *)
(***************************************************************************)
RoleAdmin == "admin"
RoleUser == "user"
RoleViewer == "viewer"

\* IsValidRole accepting every label.
IsValidRole_AnyLabel(role) == TRUE

IsValidRole(role) == role \in {RoleAdmin, RoleUser, RoleViewer}

(***************************************************************************)
(* pkg/auth: the JWT service.                                              *)
(***************************************************************************)
ErrInvalidToken == "invalid token"
ErrExpiredToken == "token has expired"

\* 24 * time.Hour, in ticks.
DefaultTokenDuration == 24 * 3600 * TicksPerSecond

JWTConfigs ==
    [SecretKey : {"", "secret-key-1", "secret-key-2"},
     TokenDuration : {-TicksPerSecond, 0, 1, TicksPerSecond, TicksPerSecond + 1},
     Issuer : {""}]

\* NewJWTService without the 24 hour default for an unset lifetime.
NewJWTService_NoDefault(cfg) ==
    IF cfg.SecretKey = ""
    THEN [svc |-> Nil, err |-> "secret key is required"]
    ELSE [svc |-> [secretKey |-> cfg.SecretKey,
                   tokenDuration |-> cfg.TokenDuration,
                   issuer |-> IF cfg.Issuer = ""
                              THEN "go-backend-template"
                              ELSE cfg.Issuer],
          err |-> NoErr]

NewJWTService(cfg) ==
    IF cfg.SecretKey = ""
    THEN [svc |-> Nil, err |-> "secret key is required"]
    ELSE [svc |-> [secretKey |-> cfg.SecretKey,
                   tokenDuration |-> IF cfg.TokenDuration = 0
                                     THEN DefaultTokenDuration
                                     ELSE cfg.TokenDuration,
                   issuer |-> IF cfg.Issuer = ""
                              THEN "go-backend-template"
                              ELSE cfg.Issuer],
          err |-> NoErr]

\* jwt.NewNumericDate: the time truncated to jwt.TimePrecision, one second;
\* the claim travels as a number of seconds.
NewNumericDate(t) == t \div TicksPerSecond

\* The instant a NumericDate claim denotes, in ticks.
NumericDateTime(secs) == secs * TicksPerSecond

\* json.Marshal of CustomClaims: the payload segment of the token.
MarshalClaims(claims) ==
    [user_id |-> Itoa(claims.UserId),
     role |-> claims.Role,
     iss |-> claims.Issuer,
     iat |-> claims.IssuedAt,
     exp |-> claims.ExpiresAt]

HMACAlgs == {"HS256", "HS384", "HS512"}
Algs == HMACAlgs \cup {"RS256", "none"}

\* A signing method's signature over header and payload: an ideal MAC, equal
\* only for the same algorithm, key and signing input.
Sign(alg, key, header, payload) ==
    IF alg = "none" THEN [none |-> TRUE]
    ELSE [alg |-> alg, key |-> key, header |-> header, payload |-> payload]

\* jwt.NewWithClaims(method, claims) followed by token.SignedString(key).
SignedString(alg, key, claims) ==
    LET header == [alg |-> alg, typ |-> "JWT"]
        payload == MarshalClaims(claims)
    IN  <<[jwt |-> [header |-> header,
                    payload |-> payload,
                    sig |-> Sign(alg, key, header, payload)]]>>

MakeClaims(userId, role, issuer, t, duration) ==
    [UserId |-> userId,
     Role |-> role,
     Issuer |-> issuer,
     IssuedAt |-> NewNumericDate(t),
     ExpiresAt |-> NewNumericDate(t + duration)]

GenerateToken(s, userId, role, t) ==
    SignedString("HS256", s.secretKey,
                 MakeClaims(userId, role, s.issuer, t, s.tokenDuration))

\* A key function that does not look at the token's signing method.
KeyFunc_AnyMethod(s, alg) == [key |-> s.secretKey, err |-> NoErr]

\* The key function ValidateToken hands to the parser.
KeyFunc(s, alg) ==
    IF alg \notin HMACAlgs
    THEN [key |-> "", err |-> ErrInvalidToken]
    ELSE [key |-> s.secretKey, err |-> NoErr]

IsJWT(ts) == Len(ts) = 1 /\ "jwt" \in DOMAIN ts[1]

\* A parser that validates the registered claims before it verifies the
\* signature.
ParseWithClaims_ClaimsFirst(s, ts, t) ==
    IF ~IsJWT(ts)
    THEN [claims |-> Nil, valid |-> FALSE, err |-> {"jwt.ErrTokenMalformed"}]
    ELSE
    LET tok == ts[1].jwt
        uid == UnmarshalInt(tok.payload.user_id)
        kf == KeyFunc(s, tok.header.alg)
        claims == [UserId |-> uid.val, Role |-> tok.payload.role,
                   Issuer |-> tok.payload.iss, IssuedAt |-> tok.payload.iat,
                   ExpiresAt |-> tok.payload.exp]
    IN  IF ~uid.ok
        THEN [claims |-> Nil, valid |-> FALSE, err |-> {"jwt.ErrTokenMalformed"}]
        ELSE IF kf.err # NoErr
        THEN [claims |-> claims, valid |-> FALSE,
              err |-> {"jwt.ErrTokenUnverifiable", kf.err}]
        ELSE IF ~(t < NumericDateTime(claims.ExpiresAt))
        THEN [claims |-> claims, valid |-> FALSE,
              err |-> {"jwt.ErrTokenInvalidClaims", "jwt.ErrTokenExpired"}]
        ELSE IF tok.sig # Sign(tok.header.alg, kf.key, tok.header, tok.payload)
        THEN [claims |-> claims, valid |-> FALSE,
              err |-> {"jwt.ErrTokenSignatureInvalid"}]
        ELSE [claims |-> claims, valid |-> TRUE, err |-> {}]

\* jwt.ParseWithClaims (golang-jwt v5) with ValidateToken's key function:
\* split and decode, look the key up, verify the signature, and only then
\* validate the registered claims.  err is the set of sentinels the
\* returned error wraps.
ParseWithClaims(s, ts, t) ==
    IF ~IsJWT(ts)
    THEN [claims |-> Nil, valid |-> FALSE, err |-> {"jwt.ErrTokenMalformed"}]
    ELSE
    LET tok == ts[1].jwt
        uid == UnmarshalInt(tok.payload.user_id)
        kf == KeyFunc(s, tok.header.alg)
        claims == [UserId |-> uid.val, Role |-> tok.payload.role,
                   Issuer |-> tok.payload.iss, IssuedAt |-> tok.payload.iat,
                   ExpiresAt |-> tok.payload.exp]
    IN  IF ~uid.ok
        THEN [claims |-> Nil, valid |-> FALSE, err |-> {"jwt.ErrTokenMalformed"}]
        ELSE IF kf.err # NoErr
        THEN [claims |-> claims, valid |-> FALSE,
              err |-> {"jwt.ErrTokenUnverifiable", kf.err}]
        ELSE IF tok.sig # Sign(tok.header.alg, kf.key, tok.header, tok.payload)
        THEN [claims |-> claims, valid |-> FALSE,
              err |-> {"jwt.ErrTokenSignatureInvalid"}]
        ELSE IF ~(t < NumericDateTime(claims.ExpiresAt))
        THEN [claims |-> claims, valid |-> FALSE,
              err |-> {"jwt.ErrTokenInvalidClaims", "jwt.ErrTokenExpired"}]
        ELSE [claims |-> claims, valid |-> TRUE, err |-> {}]

\* ValidateToken without the errors.Is(err, jwt.ErrTokenExpired) branch.
ValidateToken_NoExpiredCase(s, ts, t) ==
    LET parsed == ParseWithClaims(s, ts, t)
    IN  IF parsed.err # {} \/ ~parsed.valid
        THEN [claims |-> Nil, err |-> ErrInvalidToken]
        ELSE [claims |-> [UserId |-> parsed.claims.UserId,
                          Role |-> parsed.claims.Role],
              err |-> NoErr]

ValidateToken(s, ts, t) ==
    LET parsed == ParseWithClaims(s, ts, t)
    IN  IF parsed.err # {}
        THEN IF "jwt.ErrTokenExpired" \in parsed.err
             THEN [claims |-> Nil, err |-> ErrExpiredToken]
             ELSE [claims |-> Nil, err |-> ErrInvalidToken]
        ELSE IF ~parsed.valid
        THEN [claims |-> Nil, err |-> ErrInvalidToken]
        ELSE [claims |-> [UserId |-> parsed.claims.UserId,
                          Role |-> parsed.claims.Role],
              err |-> NoErr]

(***************************************************************************)
(* SpecToken: one JWTService, the clock, and token strings presented to    *)
(* ValidateToken: issued by the service itself, minted by another party    *)
(* (another service instance, an attacker) or malformed.  A behaviour      *)
(* follows one token string from its arrival on.                           *)
(***************************************************************************)
TokenUserIds == {-1, 0, 7, 123}
TokenRoles == {RoleAdmin, RoleUser, RoleViewer, ""}

NotValidated == [called |-> FALSE, at |-> 0, claims |-> Nil, err |-> NoErr]
Never == 0 - 1

NoToken == tokenString = Str(<<>>) /\ ~validated.called

AcceptedConfigs == {cfg \in JWTConfigs : NewJWTService(cfg).err = NoErr}

MalformedTokens ==
    {Str(<<>>), Str(<<120>>), Str(<<120, 46, 121>>), Str(<<120, 46, 121, 46, 122>>)}

InitToken ==
    /\ now = StartTime
    /\ config \in AcceptedConfigs
    /\ jwt = NewJWTService(config).svc
    /\ tokenString = Str(<<>>)
    /\ issued = Nil
    /\ validated = NotValidated
    /\ firstExpired = Never

Tick ==
    /\ now < StartTime + MaxTicks
    /\ now' = now + 1
    /\ UNCHANGED <<config, jwt, tokenVars, gateVars, accountVars>>

\* h.jwtService.GenerateToken(id, role), as Handler.Login calls it.
IssueToken ==
    \E id \in TokenUserIds, role \in TokenRoles :
        /\ NoToken
        /\ tokenString' = GenerateToken(jwt, id, role, now)
        /\ issued' = [UserId |-> id, Role |-> role, at |-> now]
        /\ validated' = NotValidated
        /\ firstExpired' = Never
        /\ UNCHANGED <<now, config, jwt, gateVars, accountVars>>

\* A token minted elsewhere at some earlier time: any algorithm, any key
\* (the service's own included), any lifetime.
PresentForeignToken ==
    \E alg \in Algs, cfg \in AcceptedConfigs, t0 \in StartTime..now :
        /\ NoToken
        /\ tokenString' =
               SignedString(alg, cfg.SecretKey,
                            MakeClaims(7, RoleAdmin, jwt.issuer, t0,
                                       NewJWTService(cfg).svc.tokenDuration))
        /\ issued' = Nil
        /\ validated' = NotValidated
        /\ firstExpired' = Never
        /\ UNCHANGED <<now, config, jwt, gateVars, accountVars>>

PresentMalformedToken ==
    \E ts \in MalformedTokens :
        /\ NoToken
        /\ tokenString' = ts
        /\ issued' = Nil
        /\ validated' = NotValidated
        /\ firstExpired' = Never
        /\ UNCHANGED <<now, config, jwt, gateVars, accountVars>>

Validate ==
    LET res == ValidateToken(jwt, tokenString, now)
    IN  /\ validated' = [called |-> TRUE, at |-> now,
                         claims |-> res.claims, err |-> res.err]
        /\ firstExpired' = IF firstExpired = Never /\ res.err = ErrExpiredToken
                           THEN now ELSE firstExpired
        /\ UNCHANGED <<now, config, jwt, tokenString, issued, gateVars,
                       accountVars>>

(***************************************************************************)
(* Claims about the token service, checked under SpecToken.                *)
(***************************************************************************)
Tok == tokenString[1].jwt
TokExpiry == NumericDateTime(Tok.payload.exp)

SignedWithOtherSecret ==
    /\ IsJWT(tokenString)
    /\ "key" \in DOMAIN Tok.sig
    /\ Tok.sig.key # jwt.secretKey

CorrectlySigned ==
    /\ IsJWT(tokenString)
    /\ Tok.header.alg \in HMACAlgs
    /\ Tok.sig = Sign(Tok.header.alg, jwt.secretKey, Tok.header, Tok.payload)

\* C4: a token signed with a secret other than the verifying service's is
\* always answered ErrInvalidToken with no claims, also when it is past its
\* expiry.
C4_WrongSecretIsInvalid ==
    (validated.called /\ SignedWithOtherSecret)
        => (validated.err = ErrInvalidToken /\ validated.claims = Nil)

C4_Witness ==
    /\ validated.called
    /\ SignedWithOtherSecret
    /\ Tok.header.alg = "HS256"
    /\ validated.at > TokExpiry
    /\ validated.err = ErrInvalidToken

\* C5 as stated: every token whose header declares an algorithm other than
\* HS256 is answered ErrInvalidToken.
C5_OnlyHS256Accepted ==
    (validated.called /\ IsJWT(tokenString) /\ Tok.header.alg # "HS256")
        => validated.err = ErrInvalidToken

\* C5 amended: every token whose header declares an algorithm outside the
\* HMAC family (HS256, HS384, HS512) is answered ErrInvalidToken with no
\* claims, also when its signature was made with the service's secret.
C5_NonHMACRejected ==
    (validated.called /\ IsJWT(tokenString) /\ Tok.header.alg \notin HMACAlgs)
        => (validated.err = ErrInvalidToken /\ validated.claims = Nil)

C5_Witness ==
    /\ validated.called
    /\ IsJWT(tokenString)
    /\ Tok.header.alg = "RS256"
    /\ Tok.sig.key = jwt.secretKey
    /\ validated.at < TokExpiry
    /\ validated.err = ErrInvalidToken

\* C6: a token correctly signed with the service's secret is answered with
\* its claims at every time before its expiry and with ErrExpiredToken at
\* every time after it; once a token has been reported expired, every later
\* answer for it is ErrExpiredToken again.
C6_ExpiryOutcome ==
    /\ (validated.called /\ CorrectlySigned /\ validated.at < TokExpiry)
          => /\ validated.err = NoErr
             /\ validated.claims =
                    [UserId |-> UnmarshalInt(Tok.payload.user_id).val,
                     Role |-> Tok.payload.role]
    /\ (validated.called /\ CorrectlySigned /\ validated.at > TokExpiry)
          => (validated.err = ErrExpiredToken /\ validated.claims = Nil)
    /\ (firstExpired # Never)
          => (validated.err = ErrExpiredToken /\ validated.claims = Nil)

C6_Witness ==
    /\ CorrectlySigned
    /\ firstExpired # Never
    /\ validated.at > firstExpired
    /\ validated.err = ErrExpiredToken

\* C7: ValidateToken on a token GenerateToken(id, role) of the same service
\* made, before the token's expiry, returns claims with that id and that
\* role.
C7_RoundTrip ==
    (issued # Nil /\ validated.called /\ validated.at < TokExpiry)
        => /\ validated.err = NoErr
           /\ validated.claims = [UserId |-> issued.UserId, Role |-> issued.Role]

C7_Witness ==
    /\ issued # Nil
    /\ validated.called
    /\ issued.UserId = 123
    /\ issued.Role = RoleViewer
    /\ validated.at > issued.at
    /\ validated.claims = [UserId |-> 123, Role |-> RoleViewer]

Lifetime ==
    IF config.TokenDuration = 0 THEN DefaultTokenDuration
    ELSE config.TokenDuration

\* C8 as stated: for every accepted configuration, every issued token's
\* expiry claim is strictly later than its issued-at claim.
C8_ExpiryAfterIssuedAt ==
    (issued # Nil) => Tok.payload.exp > Tok.payload.iat

\* C8 amended: for every accepted configuration whose lifetime is unset or
\* at least one second, every issued token's expiry claim is strictly later
\* than its issued-at claim; expiry = issued-at + lifetime when the lifetime
\* is a whole number of seconds, 24 hours when it is unset.
C8_ExpiryAfterIssuedAtFromOneSecond ==
    (issued # Nil
     /\ (config.TokenDuration = 0 \/ config.TokenDuration >= TicksPerSecond))
        => /\ Tok.payload.exp > Tok.payload.iat
           /\ (Lifetime % TicksPerSecond = 0)
                 => (NumericDateTime(Tok.payload.exp)
                       = NumericDateTime(Tok.payload.iat) + Lifetime)

C8_Witness ==
    /\ issued # Nil
    /\ config.TokenDuration = 0
    /\ Tok.payload.exp = Tok.payload.iat + 24 * 3600

(***************************************************************************)
(* handler: the request-scoped identity context (gin.Context Keys).        *)
(***************************************************************************)
ContextKeyUserId == "user_id"
ContextKeyUserRole == "user_role"

\* gin's c.Set.
Set(gc, key, value) ==
    [gc EXCEPT !.Keys = [k \in DOMAIN gc.Keys \cup {key} |->
                            IF k = key THEN value ELSE gc.Keys[k]]]

\* gin's c.GetInt / c.GetString: the zero value when the key is absent.
GetInt(gc, key) == IF key \in DOMAIN gc.Keys THEN gc.Keys[key] ELSE 0
GetString(gc, key) == IF key \in DOMAIN gc.Keys THEN gc.Keys[key] ELSE ""

GetUserId(gc) == GetInt(gc, ContextKeyUserId)
GetUserRole(gc) == GetString(gc, ContextKeyUserRole)
SetUserId(gc, userId) == Set(gc, ContextKeyUserId, userId)

\* SetUserRole storing the role under the user id key.
SetUserRole_WrongKey(gc, role) == Set(gc, ContextKeyUserId, role)

SetUserRole(gc, role) == Set(gc, ContextKeyUserRole, role)

(***************************************************************************)
(* gin: the parts of gin.Context the middleware uses.                      *)
(***************************************************************************)
\* c.Header leaving the response headers as they were.
Header_NotSet(gc, key, value) == gc

\* c.Header: set a response header.
Header(gc, key, value) ==
    [gc EXCEPT !.respHeader = [k \in DOMAIN gc.respHeader \cup {key} |->
                                  IF k = key THEN value ELSE gc.respHeader[k]]]

\* c.GetHeader: "" when the request has no such header.
GetHeader(gc) == IF gc.header.present THEN gc.header.value ELSE Str(<<>>)

\* c.Param: "" when the route has no such parameter.
Param(gc, name) == IF name \in DOMAIN gc.params THEN gc.params[name] ELSE Str(<<>>)

\* c.AbortWithStatusJSON writing the response without aborting the chain.
AbortWithStatusJSON_NoAbort(gc, code, message, data) ==
    [gc EXCEPT !.status = code, !.body = [message |-> message, data |-> data]]

\* c.AbortWithStatusJSON: no pending handler runs, the response is written.
AbortWithStatusJSON(gc, code, message, data) ==
    [gc EXCEPT !.aborted = TRUE, !.status = code,
               !.body = [message |-> message, data |-> data]]

(***************************************************************************)
(* middleware/auth: the gates.  Each takes the context as the gate finds   *)
(* it and gives the context as the gate leaves it; a gate that does not    *)
(* abort hands over to the next handler of the chain (c.Next).             *)
(***************************************************************************)
authorizationHeader == "Authorization"
bearerPrefix == Str(<<66, 101, 97, 114, 101, 114, 32>>)

StatusUnauthorized == 401
StatusForbidden == 403
StatusOK == 200

NoData == ""

\* RequireAuth without the check for an empty token after the prefix.
RequireAuth_NoEmptyTokenCheck(gc, s, t) ==
    LET varied == [Header(gc, "Vary", authorizationHeader) EXCEPT !.authAt = t]
        authHeader == GetHeader(gc)
        token == TrimPrefix(authHeader, bearerPrefix)
        res == ValidateToken(s, token, t)
    IN  IF authHeader = Str(<<>>)
        THEN [gc |-> AbortWithStatusJSON(varied, StatusUnauthorized,
                        "authorization header is required", NoData),
              calls |-> 0]
        ELSE IF ~HasPrefix(authHeader, bearerPrefix)
        THEN [gc |-> AbortWithStatusJSON(varied, StatusUnauthorized,
                        "invalid authorization header format", NoData),
              calls |-> 0]
        ELSE IF res.err # NoErr
        THEN [gc |-> AbortWithStatusJSON(varied, StatusUnauthorized,
                        "invalid token", res.err),
              calls |-> 1]
        ELSE [gc |-> SetUserRole(SetUserId(varied, res.claims.UserId),
                                 res.claims.Role),
              calls |-> 1]

\* RequireAuth also looking the token's account up in the users table: it
\* rejects a token whose account is gone, inactive or of another role.
RequireAuth_CheckingAccount(gc, s, t) ==
    LET varied == [Header(gc, "Vary", authorizationHeader) EXCEPT !.authAt = t]
        authHeader == GetHeader(gc)
        token == TrimPrefix(authHeader, bearerPrefix)
        res == ValidateToken(s, token, t)
    IN  IF authHeader = Str(<<>>) \/ ~HasPrefix(authHeader, bearerPrefix)
           \/ token = Str(<<>>)
        THEN [gc |-> AbortWithStatusJSON(varied, StatusUnauthorized,
                        "authorization header is required", NoData),
              calls |-> 0]
        ELSE IF res.err # NoErr
        THEN [gc |-> AbortWithStatusJSON(varied, StatusUnauthorized,
                        "invalid token", res.err),
              calls |-> 1]
        ELSE IF ~\E r \in users : /\ r.Id = res.claims.UserId
                                  /\ r.Role = res.claims.Role
                                  /\ r.IsActive
        THEN [gc |-> AbortWithStatusJSON(varied, StatusUnauthorized,
                        "invalid token", NoData),
              calls |-> 1]
        ELSE [gc |-> SetUserRole(SetUserId(varied, res.claims.UserId),
                                 res.claims.Role),
              calls |-> 1]

\* Middleware.RequireAuth over the JWT service s at time t; calls counts the
\* ValidateToken calls it made.
RequireAuth(gc, s, t) ==
    LET varied == [Header(gc, "Vary", authorizationHeader) EXCEPT !.authAt = t]
        authHeader == GetHeader(gc)
        token == TrimPrefix(authHeader, bearerPrefix)
        res == ValidateToken(s, token, t)
    IN  IF authHeader = Str(<<>>)
        THEN [gc |-> AbortWithStatusJSON(varied, StatusUnauthorized,
                        "authorization header is required", NoData),
              calls |-> 0]
        ELSE IF ~HasPrefix(authHeader, bearerPrefix)
        THEN [gc |-> AbortWithStatusJSON(varied, StatusUnauthorized,
                        "invalid authorization header format", NoData),
              calls |-> 0]
        ELSE IF token = Str(<<>>)
        THEN [gc |-> AbortWithStatusJSON(varied, StatusUnauthorized,
                        "token is required", NoData),
              calls |-> 0]
        ELSE IF res.err # NoErr
        THEN [gc |-> AbortWithStatusJSON(varied, StatusUnauthorized,
                        "invalid token", res.err),
              calls |-> 1]
        ELSE [gc |-> SetUserRole(SetUserId(varied, res.claims.UserId),
                                 res.claims.Role),
              calls |-> 1]

\* RequireRole looking at the first allowed role only.
RequireRole_FirstOnly(gc, allowedRoles) ==
    IF Len(allowedRoles) > 0 /\ GetUserRole(gc) = allowedRoles[1]
    THEN gc
    ELSE AbortWithStatusJSON(gc, StatusForbidden, "insufficient permissions", NoData)

\* Middleware.RequireRole(allowedRoles...).
RequireRole(gc, allowedRoles) ==
    LET userRole == GetUserRole(gc)
    IN  IF \E i \in 1..Len(allowedRoles) : userRole = allowedRoles[i]
        THEN gc
        ELSE AbortWithStatusJSON(gc, StatusForbidden,
                                 "insufficient permissions", NoData)

\* Middleware.RequireAdminOrSelf(paramName).
RequireAdminOrSelf(gc, paramName) ==
    LET userRole == GetUserRole(gc)
        userId == GetUserId(gc)
        paramId == Param(gc, paramName)
    IN  IF userRole = RoleAdmin
        THEN gc
        ELSE IF paramId # Str(<<>>) /\ paramId = StringOfRune(userId)
        THEN gc
        ELSE AbortWithStatusJSON(gc, StatusForbidden,
                                 "insufficient permissions", NoData)

(***************************************************************************)
(* routes: the handler chain of every registered route, and the chains the *)
(* middleware package offers beyond them (RequireRole with several roles,  *)
(* RequireAdminOrSelf).                                                    *)
(***************************************************************************)
HandlerFunc(fn, roles, param) == [fn |-> fn, roles |-> roles, param |-> param]

AuthGate == HandlerFunc("RequireAuth", <<>>, "")
RoleGate(roles) == HandlerFunc("RequireRole", roles, "")
\* RequireAdmin letting role user through as well.
RequireAdmin_OrUser == RoleGate(<<RoleAdmin, RoleUser>>)
\* Middleware.RequireAdmin.
RequireAdmin == RoleGate(<<RoleAdmin>>)
AdminOrSelfGate(param) == HandlerFunc("RequireAdminOrSelf", <<>>, param)
Endpoint(name) == HandlerFunc(name, <<>>, "")

RegisteredRoutes ==
    [path : {"POST /auth/login"}, handlers : {<<Endpoint("Login")>>}]
    \cup [path : {"GET /me"}, handlers : {<<AuthGate, Endpoint("GetMe")>>}]
    \cup [path : {"GET /users"},
          handlers : {<<AuthGate, RequireAdmin, Endpoint("GetUsers")>>}]
    \cup [path : {"POST /users"},
          handlers : {<<AuthGate, RequireAdmin, Endpoint("CreateUser")>>}]
    \cup [path : {"GET /users/:id"},
          handlers : {<<AuthGate, Endpoint("GetUser")>>}]
    \cup [path : {"PATCH /users/:id"},
          handlers : {<<AuthGate, RequireAdmin, Endpoint("UpdateUser")>>}]
    \cup [path : {"DELETE /users/:id"},
          handlers : {<<AuthGate, RequireAdmin, Endpoint("DeleteUser")>>}]
    \cup [path : {"POST /users/:id/change-password"},
          handlers : {<<AuthGate, Endpoint("ChangePassword")>>}]

MiddlewareRoutes ==
    [path : {"GET /staff"},
     handlers : {<<AuthGate, RoleGate(<<RoleAdmin, RoleUser>>), Endpoint("Staff")>>}]
    \cup [path : {"GET /owned/:id"},
          handlers : {<<AuthGate, AdminOrSelfGate("id"), Endpoint("Owned")>>}]
    \cup [path : {"GET /open/:id"},
          handlers : {<<AdminOrSelfGate("id"), Endpoint("Open")>>}]

Routes == RegisteredRoutes \cup MiddlewareRoutes

HasIdParam(route) ==
    route.path \in {"GET /users/:id", "PATCH /users/:id", "DELETE /users/:id",
                    "POST /users/:id/change-password", "GET /owned/:id",
                    "GET /open/:id"}

(***************************************************************************)
(* SpecGate: one request through the handler chain of its route.           *)
(***************************************************************************)
GateUserIds == {7, 55, 123}
GateRoles == {RoleAdmin, RoleUser, RoleViewer}
PathIds == {Itoa(7), Itoa(8), Itoa(123)}

\* Tokens a client can hold at time t: issued by this service at start-up
\* or just now, or minted with another secret.
ClientTokens(t) ==
    {GenerateToken(jwt, id, role, t0) :
        id \in GateUserIds, role \in GateRoles, t0 \in {StartTime, t}}
    \cup {SignedString("HS256", "attacker-key",
                       MakeClaims(7, RoleAdmin, jwt.issuer, t, DefaultTokenDuration))}

AuthorizationHeaders(t) ==
    {[present |-> FALSE, value |-> Str(<<>>)],
     [present |-> TRUE, value |-> Str(<<>>)],
     [present |-> TRUE, value |-> Str(<<66, 97, 115, 105, 99, 32, 120>>)],
     [present |-> TRUE, value |-> Str(<<66, 101, 97, 114, 101, 114>>)],
     [present |-> TRUE, value |-> bearerPrefix],
     [present |-> TRUE, value |-> bearerPrefix \o Str(<<120>>)]}
    \cup {[present |-> TRUE, value |-> bearerPrefix \o tok] : tok \in ClientTokens(t)}
    \cup {[present |-> TRUE, value |-> Str(<<98, 101, 97, 114, 101, 114, 32>>) \o tok] :
            tok \in {GenerateToken(jwt, 7, RoleAdmin, t)}}

NoKeys == [k \in {} |-> 0]

\* The context gin builds for a request matched to route.
NewContext(route, header, id) ==
    [route |-> route.path,
     handlers |-> route.handlers,
     index |-> 1,
     aborted |-> FALSE,
     header |-> header,
     params |-> IF HasIdParam(route) THEN [id |-> id] ELSE NoKeys,
     Keys |-> NoKeys,
     status |-> 0,
     body |-> [message |-> "", data |-> NoData],
     respHeader |-> NoKeys,
     ran |-> <<>>,
     authAt |-> Never]

InitGate == ctx = Nil /\ validatorCalls = 0

Pending(fn) ==
    /\ ctx # Nil
    /\ ~ctx.aborted
    /\ ctx.index <= Len(ctx.handlers)
    /\ ctx.handlers[ctx.index].fn = fn

\* The handler at c.index has run: c.Next moves on unless it aborted.
Ran(gc) == [gc EXCEPT !.ran = Append(ctx.ran, ctx.handlers[ctx.index].fn),
                      !.index = ctx.index + 1]

NewRequest ==
    /\ ctx = Nil
    /\ \E route \in Routes, header \in AuthorizationHeaders(now), id \in PathIds :
          /\ HasIdParam(route) \/ id = Itoa(7)
          /\ ctx' = NewContext(route, header, id)
    /\ validatorCalls' = 0
    /\ UNCHANGED <<now, config, jwt, tokenVars, accountVars>>

ServeRequireAuth ==
    /\ Pending("RequireAuth")
    /\ LET out == RequireAuth(ctx, jwt, now)
       IN  /\ ctx' = Ran(out.gc)
           /\ validatorCalls' = validatorCalls + out.calls
    /\ UNCHANGED <<now, config, jwt, tokenVars, accountVars>>

ServeRequireRole ==
    /\ Pending("RequireRole")
    /\ ctx' = Ran(RequireRole(ctx, ctx.handlers[ctx.index].roles))
    /\ UNCHANGED <<now, config, jwt, tokenVars, validatorCalls, accountVars>>

ServeRequireAdminOrSelf ==
    /\ Pending("RequireAdminOrSelf")
    /\ ctx' = Ran(RequireAdminOrSelf(ctx, ctx.handlers[ctx.index].param))
    /\ UNCHANGED <<now, config, jwt, tokenVars, validatorCalls, accountVars>>

\* The route's own handler: the last of the chain.
ServeEndpoint ==
    /\ ctx # Nil
    /\ ~ctx.aborted
    /\ ctx.index = Len(ctx.handlers)
    /\ ctx' = Ran([ctx EXCEPT !.status = StatusOK])
    /\ UNCHANGED <<now, config, jwt, tokenVars, validatorCalls, accountVars>>

(***************************************************************************)
(* Claims about the gates, checked under SpecGate.                         *)
(***************************************************************************)
HasRun(fn) == ctx # Nil /\ \E i \in 1..Len(ctx.ran) : ctx.ran[i] = fn

\* The gate fn aborted the request: it is the last handler that ran.
RejectedBy(fn) ==
    /\ ctx # Nil
    /\ ctx.aborted
    /\ Len(ctx.ran) > 0
    /\ ctx.ran[Len(ctx.ran)] = fn

IdentityInstalled ==
    ctx # Nil /\ DOMAIN ctx.Keys = {ContextKeyUserId, ContextKeyUserRole}

TargetId == Atoi(Param(ctx, "id"))

\* C2: RequireAdminOrSelf passes every request whose installed identity is
\* admin, and every request of a non-admin identity whose user id equals,
\* as a number, the target id of the request path.
C2_AdminOrSelfPasses ==
    (/\ HasRun("RequireAdminOrSelf")
     /\ IdentityInstalled
     /\ \/ GetUserRole(ctx) = RoleAdmin
        \/ (TargetId.ok /\ TargetId.val = GetUserId(ctx)))
        => ~RejectedBy("RequireAdminOrSelf")

\* C3: RequireAdminOrSelf rejects with 403 every request whose installed
\* identity is not admin and whose user id differs, as a number, from the
\* target id of the request path.
C3_OthersRejected ==
    (/\ HasRun("RequireAdminOrSelf")
     /\ IdentityInstalled
     /\ GetUserRole(ctx) # RoleAdmin
     /\ TargetId.ok
     /\ TargetId.val # GetUserId(ctx))
        => (RejectedBy("RequireAdminOrSelf") /\ ctx.status = StatusForbidden)

Rejected401(message, data) ==
    /\ RejectedBy("RequireAuth")
    /\ ctx.status = StatusUnauthorized
    /\ ctx.body = [message |-> message, data |-> data]

PresentedToken == TrimPrefix(GetHeader(ctx), bearerPrefix)
Verdict == ValidateToken(jwt, PresentedToken, ctx.authAt)

\* C9: RequireAuth decides in this order, each rejection a 401 with its own
\* message: header absent or empty, header without the "Bearer " prefix,
\* nothing after the prefix, token rejected by the validator (the reason as
\* data), otherwise the request passes; the validator is called in the last
\* two cases only, once.
C9_RequireAuthOrder ==
    HasRun("RequireAuth") =>
        IF GetHeader(ctx) = Str(<<>>)
        THEN Rejected401("authorization header is required", NoData)
             /\ validatorCalls = 0
        ELSE IF ~HasPrefix(GetHeader(ctx), bearerPrefix)
        THEN Rejected401("invalid authorization header format", NoData)
             /\ validatorCalls = 0
        ELSE IF PresentedToken = Str(<<>>)
        THEN Rejected401("token is required", NoData) /\ validatorCalls = 0
        ELSE IF Verdict.err # NoErr
        THEN Rejected401("invalid token", Verdict.err) /\ validatorCalls = 1
        ELSE ~RejectedBy("RequireAuth") /\ validatorCalls = 1

C9_Witness ==
    /\ HasRun("RequireAuth")
    /\ GetHeader(ctx) = bearerPrefix
    /\ ctx.body.message = "token is required"
    /\ validatorCalls = 0

\* C10: the identity context of a request is empty until RequireAuth accepts
\* a token and stays empty when RequireAuth rejects; from acceptance on it
\* holds exactly the id and role of the verified claims, whatever later
\* gates run.
C10_IdentityContext ==
    (ctx # Nil) =>
        IF HasRun("RequireAuth") /\ ~RejectedBy("RequireAuth")
        THEN DOMAIN ctx.Keys = {ContextKeyUserId, ContextKeyUserRole}
             /\ ctx.Keys[ContextKeyUserId] = Verdict.claims.UserId
             /\ ctx.Keys[ContextKeyUserRole] = Verdict.claims.Role
        ELSE ctx.Keys = NoKeys

C10_Witness ==
    /\ HasRun("RequireAuth")
    /\ RejectedBy("RequireAdminOrSelf")
    /\ ctx.Keys = (ContextKeyUserId :> 123 @@ ContextKeyUserRole :> RoleUser)

Gates == {"RequireAuth", "RequireRole", "RequireAdminOrSelf"}

\* A gate has written its rejection as the response of the request.
Rejected == ctx # Nil /\ ctx.status \in {StatusUnauthorized, StatusForbidden}

\* C11: once a gate rejects a request, the response carries that gate's
\* status (401 for RequireAuth, 403 for RequireRole, RequireAdmin and
\* RequireAdminOrSelf), the rejecting gate is the last handler that ran, and
\* from then on no gate and no handler runs for the request.
C11_ShortCircuit ==
    /\ [](Rejected =>
            /\ ctx.aborted
            /\ \E fn \in Gates :
                  /\ RejectedBy(fn)
                  /\ ctx.status = IF fn = "RequireAuth" THEN StatusUnauthorized
                                  ELSE StatusForbidden)
    /\ [][Rejected => ctx' = ctx]_vars

C11_Witness ==
    /\ RejectedBy("RequireRole")
    /\ ctx.route = "DELETE /users/:id"
    /\ ctx.ran = <<"RequireAuth", "RequireRole">>
    /\ ctx.index <= Len(ctx.handlers)
    /\ ctx.status = StatusForbidden

\* C12: every request on which RequireAuth ran has the response header
\* Vary: Authorization, whatever RequireAuth decided and whatever ran after.
C12_VaryHeader ==
    HasRun("RequireAuth") =>
        /\ "Vary" \in DOMAIN ctx.respHeader
        /\ ctx.respHeader["Vary"] = authorizationHeader

C12_Witness ==
    /\ RejectedBy("RequireAuth")
    /\ ~ctx.header.present
    /\ ctx.respHeader = ("Vary" :> authorizationHeader)

\* The roles the RequireRole gate of the request's route allows.
AllowedRoles ==
    UNION {{ctx.handlers[i].roles[j] : j \in 1..Len(ctx.handlers[i].roles)} :
            i \in {k \in 1..Len(ctx.handlers) :
                      ctx.handlers[k].fn = "RequireRole"}}

\* C13: RequireRole(allowed...) passes a request if and only if the installed
\* identity's role is one of the allowed roles, and otherwise responds 403
\* "insufficient permissions"; RequireAdmin is RequireRole(admin).
C13_RequireRole ==
    /\ HasRun("RequireRole") =>
          /\ ~RejectedBy("RequireRole") <=> GetUserRole(ctx) \in AllowedRoles
          /\ RejectedBy("RequireRole") =>
                /\ ctx.status = StatusForbidden
                /\ ctx.body = [message |-> "insufficient permissions",
                               data |-> NoData]
    /\ RequireAdmin = RoleGate(<<RoleAdmin>>)

C13_Witness ==
    /\ HasRun("RequireRole")
    /\ ctx.route = "GET /staff"
    /\ GetUserRole(ctx) = RoleUser
    /\ ~ctx.aborted
    /\ ctx.ran = <<"RequireAuth", "RequireRole", "Staff">>

\* The route's own handler has run.
EndpointRan ==
    /\ ctx # Nil
    /\ HasRun(ctx.handlers[Len(ctx.handlers)].fn)

\* RequireAuth has run and the validator accepted the presented token.
TokenVerified ==
    /\ HasRun("RequireAuth")
    /\ ~RejectedBy("RequireAuth")
    /\ Verdict.err = NoErr

\* C25: on the registered routes, the handlers of GET /users, POST /users,
\* PATCH /users/:id and DELETE /users/:id run only for a request whose token
\* verified and whose installed role is admin; on every protected route
\* RequireAuth runs before any role gate and before the handler; POST
\* /auth/login is the only route whose handler runs without a verified
\* token.
C25_RouteGates ==
    (ctx # Nil /\ ctx.route \in {r.path : r \in RegisteredRoutes})
        => /\ (/\ ctx.route \in {"GET /users", "POST /users", "PATCH /users/:id",
                                 "DELETE /users/:id"}
               /\ EndpointRan)
                 => /\ TokenVerified
                    /\ Verdict.claims.Role = RoleAdmin
                    /\ GetUserRole(ctx) = RoleAdmin
           /\ (ctx.route # "POST /auth/login" /\ Len(ctx.ran) > 0)
                 => /\ ctx.ran[1] = "RequireAuth"
                    /\ \A i \in 2..Len(ctx.ran) : ctx.ran[i] # "RequireAuth"
           /\ (EndpointRan /\ ~TokenVerified) => ctx.route = "POST /auth/login"

\* DELETE /users/:id reached its handler behind both gates with an admin
\* token.
C25_Witness ==
    /\ ctx # Nil
    /\ ctx.route = "DELETE /users/:id"
    /\ ctx.ran = <<"RequireAuth", "RequireRole", "DeleteUser">>
    /\ TokenVerified
    /\ GetUserRole(ctx) = RoleAdmin
    /\ ctx.status = StatusOK

(***************************************************************************)
(* domain: the tagged errors the service returns.                          *)
(***************************************************************************)
InternalServerError(msg, err) ==
    [kind |-> "InternalServerError", Msg |-> msg, Err |-> err]
UserNotFoundError(id, email) ==
    [kind |-> "UserNotFoundError", Id |-> id, Email |-> email]
UserAlreadyExistsError(email) ==
    [kind |-> "UserAlreadyExistsError", Email |-> email]
InvalidCredentialsError == [kind |-> "InvalidCredentialsError"]
InvalidRoleError(role) == [kind |-> "InvalidRoleError", Role |-> role]
UnauthorizedError(reason) == [kind |-> "UnauthorizedError", Reason |-> reason]
ForbiddenError(reason) == [kind |-> "ForbiddenError", Reason |-> reason]
ValidationError(field, message) ==
    [kind |-> "ValidationError", Field |-> field, Message |-> message]

\* HTTPStatus taking the status of a not-found error from its fields.
HTTPStatus_ByFields(e) ==
    CASE e.kind = "InternalServerError" -> 500
      [] e.kind = "UnauthorizedError" -> 401
      [] e.kind = "ForbiddenError" -> 403
      [] e.kind = "ValidationError" -> 400
      [] e.kind = "UserNotFoundError" -> IF e.Id = 0 /\ e.Email = "" THEN 400 ELSE 404
      [] e.kind = "UserAlreadyExistsError" -> 409
      [] e.kind = "InvalidCredentialsError" -> 401
      [] e.kind = "InvalidRoleError" -> 400

\* DomainError.HTTPStatus.
HTTPStatus(e) ==
    CASE e.kind = "InternalServerError" -> 500
      [] e.kind = "UnauthorizedError" -> 401
      [] e.kind = "ForbiddenError" -> 403
      [] e.kind = "ValidationError" -> 400
      [] e.kind = "UserNotFoundError" -> 404
      [] e.kind = "UserAlreadyExistsError" -> 409
      [] e.kind = "InvalidCredentialsError" -> 401
      [] e.kind = "InvalidRoleError" -> 400

(***************************************************************************)
(* repository: the sentinel errors of package repository, which the        *)
(* service matches with errors.Is, and those of package postgres, which    *)
(* the postgres repository returns.  They are distinct error values.       *)
(***************************************************************************)
repository_ErrUserNotFound == "repository.ErrUserNotFound"
repository_ErrDuplicateEmail == "repository.ErrDuplicateEmail"
postgres_ErrNoUser == "postgres.ErrNoUser"
postgres_ErrDuplicateEmail == "postgres.ErrDuplicateEmail"
\* Any other failure of the database driver.
ErrBadConn == "driver: bad connection"

\* errors.Is on sentinel errors that wrap nothing: identity.
Is(err, target) == err = target

(***************************************************************************)
(* pkg/auth: the bcrypt password hasher.  A password is its first 72 bytes *)
(* and its length; a digest holds the salt and what bcrypt keyed on.       *)
(***************************************************************************)
Password(head, len) == [head |-> head, len |-> len]
MaxPasswordBytes == 72

\* bcrypt keys on at most the first 72 bytes of the password.
Keyed(password) ==
    IF password.len > MaxPasswordBytes
    THEN Password(password.head, MaxPasswordBytes)
    ELSE password

ErrPasswordTooLong == "bcrypt: password length exceeds 72 bytes"
ErrMismatchedHashAndPassword ==
    "crypto/bcrypt: hashedPassword is not the hash of the given password"
NoDigest == [empty |-> TRUE]

\* Hash keying on the first 72 bytes of a longer password.
Hash_Truncating(password, salt) ==
    [hash |-> [salt |-> salt, keyed |-> Keyed(password)], err |-> NoErr]

\* Hash returning the password itself.
Hash_Plaintext(password, salt) ==
    IF password.len > MaxPasswordBytes
    THEN [hash |-> NoDigest, err |-> ErrPasswordTooLong]
    ELSE [hash |-> password, err |-> NoErr]

\* PasswordHasher.Hash; salt is the random salt bcrypt drew.
Hash(password, salt) ==
    IF password.len > MaxPasswordBytes
    THEN [hash |-> NoDigest, err |-> ErrPasswordTooLong]
    ELSE [hash |-> [salt |-> salt, keyed |-> Keyed(password)], err |-> NoErr]

\* Compare accepting every password.
Compare_AlwaysMatches(hashedPassword, password) == NoErr

\* PasswordHasher.Compare.
Compare(hashedPassword, password) ==
    IF "keyed" \in DOMAIN hashedPassword
       /\ hashedPassword.keyed = Keyed(password)
    THEN NoErr
    ELSE ErrMismatchedHashAndPassword

(***************************************************************************)
(* repository/postgres: the users table and the queries on it.  db is the  *)
(* table's rows and its id sequence; fail says the driver failed the query.*)
(***************************************************************************)
RowsByEmail(db, email) == {r \in db.users : r.Email = email}
RowsById(db, id) == {r \in db.users : r.Id = id}
TheRow(rows) == CHOOSE r \in rows : TRUE

\* Repository.InsertUser.  The sequence advances whether or not the unique
\* constraint on email lets the row in.
Repository_InsertUser(db, user, at, fail) ==
    IF fail THEN [db |-> db, id |-> 0, err |-> ErrBadConn]
    ELSE IF RowsByEmail(db, user.Email) # {}
    THEN [db |-> [db EXCEPT !.nextId = db.nextId + 1],
          id |-> 0, err |-> postgres_ErrDuplicateEmail]
    ELSE [db |-> [users |-> db.users \cup
                     {[user EXCEPT !.Id = db.nextId,
                                   !.CreatedAt = at, !.UpdatedAt = at]},
                  nextId |-> db.nextId + 1],
          id |-> db.nextId, err |-> NoErr]

\* Repository.GetUserById.
Repository_GetUserById(db, id, fail) ==
    IF fail THEN [user |-> Nil, err |-> ErrBadConn]
    ELSE IF RowsById(db, id) = {} THEN [user |-> Nil, err |-> postgres_ErrNoUser]
    ELSE [user |-> TheRow(RowsById(db, id)), err |-> NoErr]

\* Repository.GetUserByEmail.
Repository_GetUserByEmail(db, email, fail) ==
    IF fail THEN [user |-> Nil, err |-> ErrBadConn]
    ELSE IF RowsByEmail(db, email) = {}
    THEN [user |-> Nil, err |-> postgres_ErrNoUser]
    ELSE [user |-> TheRow(RowsByEmail(db, email)), err |-> NoErr]

\* ExistsUserByEmail answering false whatever the table holds.
Repository_ExistsUserByEmail_NeverExists(db, email, fail) ==
    IF fail THEN [exists |-> FALSE, err |-> ErrBadConn]
    ELSE [exists |-> FALSE, err |-> NoErr]

\* Repository.ExistsUserByEmail.
Repository_ExistsUserByEmail(db, email, fail) ==
    IF fail THEN [exists |-> FALSE, err |-> ErrBadConn]
    ELSE [exists |-> RowsByEmail(db, email) # {}, err |-> NoErr]

\* UpdateUser on a table without the unique constraint on email.
Repository_UpdateUser_NoConstraint(db, user, at, fail) ==
    IF fail THEN [db |-> db, err |-> ErrBadConn]
    ELSE IF RowsById(db, user.Id) = {}
    THEN [db |-> db, err |-> postgres_ErrNoUser]
    ELSE LET old == TheRow(RowsById(db, user.Id))
         IN  [db |-> [db EXCEPT !.users = (db.users \ {old}) \cup
                        {[old EXCEPT !.Email = user.Email,
                                     !.Username = user.Username,
                                     !.Name = user.Name,
                                     !.Role = user.Role,
                                     !.IsActive = user.IsActive,
                                     !.UpdatedAt = at]}],
              err |-> NoErr]

\* Repository.UpdateUser: every column but the password, by id.
Repository_UpdateUser(db, user, at, fail) ==
    IF fail THEN [db |-> db, err |-> ErrBadConn]
    ELSE IF RowsById(db, user.Id) = {}
    THEN [db |-> db, err |-> postgres_ErrNoUser]
    ELSE IF \E r \in RowsByEmail(db, user.Email) : r.Id # user.Id
    THEN [db |-> db, err |-> postgres_ErrDuplicateEmail]
    ELSE LET old == TheRow(RowsById(db, user.Id))
         IN  [db |-> [db EXCEPT !.users = (db.users \ {old}) \cup
                        {[old EXCEPT !.Email = user.Email,
                                     !.Username = user.Username,
                                     !.Name = user.Name,
                                     !.Role = user.Role,
                                     !.IsActive = user.IsActive,
                                     !.UpdatedAt = at]}],
              err |-> NoErr]

\* Repository.UpdateUserPassword.
Repository_UpdateUserPassword(db, id, hashedPassword, at, fail) ==
    IF fail THEN [db |-> db, err |-> ErrBadConn]
    ELSE IF RowsById(db, id) = {} THEN [db |-> db, err |-> postgres_ErrNoUser]
    ELSE LET old == TheRow(RowsById(db, id))
         IN  [db |-> [db EXCEPT !.users = (db.users \ {old}) \cup
                        {[old EXCEPT !.Password = hashedPassword,
                                     !.UpdatedAt = at]}],
              err |-> NoErr]

\* Repository.DeleteUserById.
Repository_DeleteUserById(db, id, fail) ==
    IF fail THEN [db |-> db, err |-> ErrBadConn]
    ELSE IF RowsById(db, id) = {} THEN [db |-> db, err |-> postgres_ErrNoUser]
    ELSE [db |-> [db EXCEPT !.users = db.users \ RowsById(db, id)],
          err |-> NoErr]

(***************************************************************************)
(* service/user: the account service over the postgres repository and the  *)
(* bcrypt hasher.  Each operation gives what it returns, the database as   *)
(* it leaves it, and the collaborator calls it made, in order.  fault is   *)
(* the number of the repository call the driver fails, 0 for none.         *)
(***************************************************************************)
Returned(db, ret, err, calls) ==
    [db |-> db, ret |-> ret, err |-> err, calls |-> calls]

\* Service.CreateUser.
Service_CreateUser(db, input, salt, at, fault) ==
    IF ~IsValidRole(input.Role)
    THEN Returned(db, 0, InvalidRoleError(input.Role), <<>>)
    ELSE
    LET found == Repository_ExistsUserByEmail(db, input.Email, fault = 1)
        hashed == Hash(input.Password, salt)
        user == [Id |-> 0, Email |-> input.Email, Username |-> input.Username,
                 Password |-> hashed.hash, Name |-> input.Name,
                 Role |-> input.Role, IsActive |-> TRUE,
                 CreatedAt |-> 0, UpdatedAt |-> 0]
        inserted == Repository_InsertUser(db, user, at, fault = 2)
    IN  IF found.err # NoErr
        THEN Returned(db, 0,
                 InternalServerError("failed to check email existence", found.err),
                 <<"ExistsUserByEmail">>)
        ELSE IF found.exists
        THEN Returned(db, 0, UserAlreadyExistsError(input.Email),
                      <<"ExistsUserByEmail">>)
        ELSE IF hashed.err # NoErr
        THEN Returned(db, 0,
                 InternalServerError("failed to hash password", hashed.err),
                 <<"ExistsUserByEmail", "Hash">>)
        ELSE IF inserted.err # NoErr
        THEN IF Is(inserted.err, repository_ErrDuplicateEmail)
             THEN Returned(inserted.db, 0, UserAlreadyExistsError(input.Email),
                           <<"ExistsUserByEmail", "Hash", "InsertUser">>)
             ELSE Returned(inserted.db, 0,
                      InternalServerError("failed to create user", inserted.err),
                      <<"ExistsUserByEmail", "Hash", "InsertUser">>)
        ELSE Returned(inserted.db, inserted.id, Nil,
                      <<"ExistsUserByEmail", "Hash", "InsertUser">>)

\* Optional input fields (Go pointers): {} for nil, {v} for a value.
Absent == {}
Deref(ptr) == CHOOSE v \in ptr : TRUE
\* A supplied field counted as a change whatever is stored.
Changes_WhenSupplied(ptr, stored) == ptr # Absent

Changes(ptr, stored) == ptr # Absent /\ Deref(ptr) # stored

\* UpdateUser saving the username before it examines the role.
Service_UpdateUser_SavingAsItGoes(db, input, at, fault) ==
    LET got == Repository_GetUserById(db, input.Id, fault = 1)
        user == got.user
        named == [user EXCEPT !.Username = IF Changes(input.Username, @)
                                           THEN Deref(input.Username) ELSE @]
        saved == Repository_UpdateUser(db, named, at, FALSE)
    IN  IF got.err # NoErr
        THEN Returned(db, Nil, InternalServerError("failed to get user", got.err),
                      <<"GetUserById">>)
        ELSE IF Changes(input.Role, user.Role) /\ ~IsValidRole(Deref(input.Role))
        THEN Returned(saved.db, Nil, InvalidRoleError(Deref(input.Role)),
                      <<"GetUserById">>)
        ELSE Returned(saved.db, Nil, Nil, <<"GetUserById", "UpdateUser">>)

\* Service.UpdateUser.
Service_UpdateUser(db, input, at, fault) ==
    LET got == Repository_GetUserById(db, input.Id, fault = 1)
        user == got.user
        emailChanges == Changes(input.Email, user.Email)
        found == Repository_ExistsUserByEmail(db, Deref(input.Email), fault = 2)
        roleChanges == Changes(input.Role, user.Role)
        hasChanges ==
            \/ emailChanges
            \/ Changes(input.Username, user.Username)
            \/ Changes(input.Name, user.Name)
            \/ roleChanges
            \/ Changes(input.IsActive, user.IsActive)
        updated ==
            [user EXCEPT
                !.Email = IF emailChanges THEN Deref(input.Email) ELSE @,
                !.Username = IF Changes(input.Username, @)
                             THEN Deref(input.Username) ELSE @,
                !.Name = IF Changes(input.Name, @) THEN Deref(input.Name) ELSE @,
                !.Role = IF roleChanges THEN Deref(input.Role) ELSE @,
                !.IsActive = IF Changes(input.IsActive, @)
                             THEN Deref(input.IsActive) ELSE @]
        checked == IF emailChanges THEN <<"GetUserById", "ExistsUserByEmail">>
                   ELSE <<"GetUserById">>
        stored == Repository_UpdateUser(db, updated, at, fault = 3)
    IN  IF got.err # NoErr
        THEN IF Is(got.err, repository_ErrUserNotFound)
             THEN Returned(db, Nil, UserNotFoundError(input.Id, ""),
                           <<"GetUserById">>)
             ELSE Returned(db, Nil,
                      InternalServerError("failed to get user", got.err),
                      <<"GetUserById">>)
        ELSE IF emailChanges /\ found.err # NoErr
        THEN Returned(db, Nil,
                 InternalServerError("failed to check email existence", found.err),
                 checked)
        ELSE IF emailChanges /\ found.exists
        THEN Returned(db, Nil, UserAlreadyExistsError(Deref(input.Email)), checked)
        ELSE IF roleChanges /\ ~IsValidRole(Deref(input.Role))
        THEN Returned(db, Nil, InvalidRoleError(Deref(input.Role)), checked)
        ELSE IF ~hasChanges
        THEN Returned(db, Nil, Nil, checked)
        ELSE IF stored.err # NoErr
        THEN IF Is(stored.err, repository_ErrDuplicateEmail)
             THEN Returned(stored.db, Nil, UserAlreadyExistsError(updated.Email),
                           Append(checked, "UpdateUser"))
             ELSE Returned(stored.db, Nil,
                      InternalServerError("failed to update user", stored.err),
                      Append(checked, "UpdateUser"))
        ELSE Returned(stored.db, Nil, Nil, Append(checked, "UpdateUser"))

\* Service.GetUserById.
Service_GetUserById(db, id, fault) ==
    LET got == Repository_GetUserById(db, id, fault = 1)
    IN  IF got.err # NoErr
        THEN IF Is(got.err, repository_ErrUserNotFound)
             THEN Returned(db, Nil, UserNotFoundError(id, ""), <<"GetUserById">>)
             ELSE Returned(db, Nil,
                      InternalServerError("failed to get user", got.err),
                      <<"GetUserById">>)
        ELSE Returned(db, got.user, Nil, <<"GetUserById">>)

\* Service.ChangePassword.
Service_ChangePassword(db, input, salt, at, fault) ==
    LET got == Repository_GetUserById(db, input.UserId, fault = 1)
        user == got.user
        hashed == Hash(input.NewPassword, salt)
        stored == Repository_UpdateUserPassword(db, input.UserId, hashed.hash, at,
                                                fault = 2)
    IN  IF got.err # NoErr
        THEN IF Is(got.err, repository_ErrUserNotFound)
             THEN Returned(db, Nil, UserNotFoundError(input.UserId, ""),
                           <<"GetUserById">>)
             ELSE Returned(db, Nil,
                      InternalServerError("failed to get user", got.err),
                      <<"GetUserById">>)
        ELSE IF Compare(user.Password, input.CurrentPassword) # NoErr
        THEN Returned(db, Nil, InvalidCredentialsError,
                      <<"GetUserById", "Compare">>)
        ELSE IF hashed.err # NoErr
        THEN Returned(db, Nil,
                 InternalServerError("failed to hash password", hashed.err),
                 <<"GetUserById", "Compare", "Hash">>)
        ELSE IF stored.err # NoErr
        THEN Returned(stored.db, Nil,
                 InternalServerError("failed to update password", stored.err),
                 <<"GetUserById", "Compare", "Hash", "UpdateUserPassword">>)
        ELSE Returned(stored.db, Nil, Nil,
                      <<"GetUserById", "Compare", "Hash", "UpdateUserPassword">>)

\* Service.DeleteUser.
Service_DeleteUser(db, id, fault) ==
    LET deleted == Repository_DeleteUserById(db, id, fault = 1)
    IN  IF deleted.err # NoErr
        THEN IF Is(deleted.err, repository_ErrUserNotFound)
             THEN Returned(db, Nil, UserNotFoundError(id, ""), <<"DeleteUserById">>)
             ELSE Returned(db, Nil,
                      InternalServerError("failed to delete user", deleted.err),
                      <<"DeleteUserById">>)
        ELSE Returned(deleted.db, Nil, Nil, <<"DeleteUserById">>)

\* Service.Login.
Service_Login(db, input, fault) ==
    LET got == Repository_GetUserByEmail(db, input.Email, fault = 1)
        user == got.user
    IN  IF got.err # NoErr
        THEN IF Is(got.err, repository_ErrUserNotFound)
             THEN Returned(db, Nil, InvalidCredentialsError, <<"GetUserByEmail">>)
             ELSE Returned(db, Nil,
                      InternalServerError("failed to get user", got.err),
                      <<"GetUserByEmail">>)
        ELSE IF ~user.IsActive
        THEN Returned(db, Nil, InvalidCredentialsError, <<"GetUserByEmail">>)
        ELSE IF Compare(user.Password, input.Password) # NoErr
        THEN Returned(db, Nil, InvalidCredentialsError,
                      <<"GetUserByEmail", "Compare">>)
        ELSE Returned(db, user, Nil, <<"GetUserByEmail", "Compare">>)

(***************************************************************************)
(* SpecAccount: service calls, one after another, on one database.         *)
(***************************************************************************)
Emails == {"test@example.com", "other@example.com"}
Passwords == {Password("password123", 11), Password("wrong_password", 14),
              Password("aaaa", 100)}
InputRoles == {RoleAdmin, RoleUser, "superuser"}
Salts == {1, 2}
\* Repository calls a service operation makes at most.
MaxRepositoryCalls(op) ==
    CASE op = "CreateUser" -> 2
      [] op = "UpdateUser" -> 3
      [] op = "DeleteUser" -> 1
      [] op = "Login" -> 1
      [] op = "GetUserById" -> 1
      [] op = "ChangePassword" -> 2
Faults(op) == 0..MaxRepositoryCalls(op)

CreateUserInputs ==
    [Email : Emails, Username : {"testuser"}, Password : Passwords,
     Name : {"Test User"}, Role : InputRoles]

NoUpdate ==
    [Email |-> Absent, Username |-> Absent, Name |-> Absent, Role |-> Absent,
     IsActive |-> Absent]

\* UpdateUser inputs that supply at most one field.
UpdateUserFields ==
    {NoUpdate}
    \cup {[NoUpdate EXCEPT !.Email = {e}] : e \in Emails}
    \cup {[NoUpdate EXCEPT !.Username = {"renamed"}]}
    \cup {[NoUpdate EXCEPT !.Name = {"New Name"}]}
    \cup {[NoUpdate EXCEPT !.Role = {r}] : r \in InputRoles}
    \cup {[NoUpdate EXCEPT !.IsActive = {b}] : b \in BOOLEAN}

UpdateUserInputs(ids) ==
    {[Id |-> id, Email |-> f.Email, Username |-> f.Username, Name |-> f.Name,
      Role |-> f.Role, IsActive |-> f.IsActive] :
        id \in ids, f \in UpdateUserFields}

LoginInputs == [Email : Emails, Password : Passwords]

Database == [users |-> users, nextId |-> nextId]
Ids == 1..nextId

\* Request flows that run concurrently.
Flows == {1, 2}
Idle == [pc |-> "idle"]

InitAccount ==
    /\ users = {}
    /\ nextId = 1
    /\ ops = 0
    /\ last = Nil
    /\ response = Nil
    /\ inflight = [f \in Flows |-> Idle]

Call(op, input, fault, out) ==
    /\ users' = out.db.users
    /\ nextId' = out.db.nextId
    /\ ops' = ops + 1
    /\ last' = [op |-> op, input |-> input, fault |-> fault, ret |-> out.ret,
                err |-> out.err, calls |-> out.calls, at |-> ops + 1]
    /\ UNCHANGED <<now, config, jwt, tokenVars, gateVars, response, inflight>>

CreateUser ==
    /\ ops < MaxOps
    /\ \E input \in CreateUserInputs, salt \in Salts, fault \in Faults("CreateUser") :
          Call("CreateUser", input, fault,
               Service_CreateUser(Database, input, salt, ops + 1, fault))

UpdateUser ==
    /\ ops < MaxOps
    /\ \E input \in UpdateUserInputs(Ids), fault \in Faults("UpdateUser") :
          Call("UpdateUser", input, fault,
               Service_UpdateUser(Database, input, ops + 1, fault))

DeleteUser ==
    /\ ops < MaxOps
    /\ \E id \in Ids, fault \in Faults("DeleteUser") :
          Call("DeleteUser", id, fault, Service_DeleteUser(Database, id, fault))

ChangePasswordInputs(ids) ==
    [UserId : ids, CurrentPassword : Passwords, NewPassword : Passwords]

ChangePassword ==
    /\ ops < MaxOps
    /\ \E input \in ChangePasswordInputs(Ids), salt \in Salts,
          fault \in Faults("ChangePassword") :
          Call("ChangePassword", input, fault,
               Service_ChangePassword(Database, input, salt, ops + 1, fault))

GetUserById ==
    /\ ops < MaxOps
    /\ \E id \in Ids, fault \in Faults("GetUserById") :
          Call("GetUserById", id, fault, Service_GetUserById(Database, id, fault))

Login ==
    /\ ops < MaxOps
    /\ \E input \in LoginInputs, fault \in Faults("Login") :
          Call("Login", input, fault, Service_Login(Database, input, fault))


(***************************************************************************)
(* handler: the HTTP handlers over the account service.  An error message  *)
(* is kept as the parts it is formatted from.                              *)
(***************************************************************************)
\* An error that is not a DomainError: only its text.
Untagged(text) == [text |-> text]

\* err.(domain.DomainError).
IsDomainError(e) == "kind" \in DOMAIN e

\* The Error method.
Error(e) ==
    IF ~IsDomainError(e) THEN <<e.text>>
    ELSE CASE e.kind = "InternalServerError" ->
                  IF e.Err # NoErr THEN <<e.Msg, ": ", e.Err>> ELSE <<e.Msg>>
           [] e.kind = "UserNotFoundError" ->
                  IF e.Id # 0 THEN <<"user not found with id: ", ToString(e.Id)>>
                  ELSE IF e.Email # "" THEN <<"user not found with email: ", e.Email>>
                  ELSE <<"user not found">>
           [] e.kind = "UserAlreadyExistsError" ->
                  <<"user already exists with email: ", e.Email>>
           [] e.kind = "InvalidCredentialsError" -> <<"invalid email or password">>
           [] e.kind = "InvalidRoleError" -> <<"invalid role: ", e.Role>>
           [] e.kind = "UnauthorizedError" -> <<"unauthorized: ", e.Reason>>
           [] e.kind = "ForbiddenError" -> <<"forbidden: ", e.Reason>>
           [] e.kind = "ValidationError" ->
                  IF e.Field # ""
                  THEN <<"validation error on field '", e.Field, "': ", e.Message>>
                  ELSE <<"validation error: ", e.Message>>

StatusBadRequest == 400
StatusInternalServerError == 500

\* BaseHandler.responseError.
responseError(code, msg, data) == [status |-> code, message |-> msg, data |-> data]

\* BaseHandler.HandleBindingError.
HandleBindingError(err) ==
    responseError(StatusBadRequest, <<"invalid request format">>, err)

\* BaseHandler.HandleValidationError.
HandleValidationError(message) == responseError(StatusBadRequest, message, NoData)

\* BaseHandler.HandleDomainError.
HandleDomainError(err) ==
    IF IsDomainError(err)
    THEN responseError(HTTPStatus(err), Error(err), NoData)
    ELSE responseError(StatusInternalServerError, Error(err), NoData)

\* BaseHandler.HandleSuccess.
HandleSuccess(status, data) == [status |-> status, message |-> <<>>, data |-> data]

\* ShouldBindJSON of a ChangePasswordRequest: current_password required,
\* new_password required,min=8,max=100 (lengths of ASCII secrets).
BindChangePasswordRequest(req) ==
    IF req.CurrentPassword.len = 0 THEN "current_password: required"
    ELSE IF req.NewPassword.len = 0 THEN "new_password: required"
    ELSE IF req.NewPassword.len < 8 THEN "new_password: min"
    ELSE IF req.NewPassword.len > 100 THEN "new_password: max"
    ELSE NoErr

\* ChangePasswordRequest.Validate without the comparison of the two secrets.
ChangePasswordRequest_Validate_Skipped(req) == NoErr

\* ChangePasswordRequest.Validate.
ChangePasswordRequest_Validate(req) ==
    IF req.CurrentPassword = req.NewPassword
    THEN "new password must be different from current password"
    ELSE NoErr

\* Handler.ChangePassword: the response, and the service call if one is made.
Handler_ChangePassword(db, idParam, req, salt, at, fault) ==
    LET userId == Atoi(idParam)
        bound == BindChangePasswordRequest(req)
        valid == ChangePasswordRequest_Validate(req)
        input == [UserId |-> userId.val,
                  CurrentPassword |-> req.CurrentPassword,
                  NewPassword |-> req.NewPassword]
        out == Service_ChangePassword(db, input, salt, at, fault)
    IN  IF ~userId.ok
        THEN [resp |-> HandleValidationError(<<"invalid user id">>),
              called |-> FALSE, input |-> input, out |-> Nil]
        ELSE IF bound # NoErr
        THEN [resp |-> HandleBindingError(bound),
              called |-> FALSE, input |-> input, out |-> Nil]
        ELSE IF valid # NoErr
        THEN [resp |-> HandleValidationError(<<valid>>),
              called |-> FALSE, input |-> input, out |-> Nil]
        ELSE IF out.err # Nil
        THEN [resp |-> HandleDomainError(out.err),
              called |-> TRUE, input |-> input, out |-> out]
        ELSE [resp |-> HandleSuccess(StatusOK, "password changed successfully"),
              called |-> TRUE, input |-> input, out |-> out]

(***************************************************************************)
(* SpecHandler: requests to the handlers, one after another.               *)
(***************************************************************************)
IdParams == {Itoa(1), Itoa(2), Str(<<120>>)}
ChangePasswordRequest(current, new) ==
    [CurrentPassword |-> current, NewPassword |-> new]
ChangePasswordRequests ==
    {ChangePasswordRequest(Password("password123", 11), Password("password123", 11)),
     ChangePasswordRequest(Password("password123", 11), Password("wrong_password", 14)),
     ChangePasswordRequest(Password("wrong_password", 14), Password("password123", 11)),
     ChangePasswordRequest(Password("password123", 11), Password("short", 5)),
     ChangePasswordRequest(Password("short", 5), Password("short", 5)),
     ChangePasswordRequest(Password("", 0), Password("", 0)),
     ChangePasswordRequest(Password("aaaa", 101), Password("aaaa", 101)),
     ChangePasswordRequest(Password("password123", 11), Password("aaaa", 101))}

\* Errors handed to HandleDomainError: the service's, and untagged ones.
HandledErrors ==
    {InternalServerError("failed to get user", ErrBadConn),
     InternalServerError("internal error", NoErr),
     UnauthorizedError("invalid token"),
     UnauthorizedError(""),
     ForbiddenError("insufficient permissions"),
     ForbiddenError(""),
     ValidationError("email", "invalid format"),
     ValidationError("", "invalid input"),
     UserNotFoundError(1, ""),
     UserNotFoundError(0, "test@example.com"),
     UserNotFoundError(0, ""),
     UserAlreadyExistsError("test@example.com"),
     UserAlreadyExistsError(""),
     InvalidCredentialsError,
     InvalidRoleError("superuser"),
     InvalidRoleError(RoleAdmin),
     Untagged("key is of invalid type"),
     Untagged(ErrBadConn)}

\* The tables SpecHandler starts from: what CreateUser makes of the empty
\* table in up to two calls.
EmptyDatabase == [users |-> {}, nextId |-> 1]
Registered(db, input) == Service_CreateUser(db, input, 1, 0, 0).db
SeedInputs ==
    {i \in CreateUserInputs :
        i.Role = RoleUser /\ i.Password = Password("password123", 11)}
SeededDatabases ==
    {EmptyDatabase}
    \cup {Registered(EmptyDatabase, i) : i \in SeedInputs}
    \cup {Registered(Registered(EmptyDatabase, i), j) : i, j \in SeedInputs}

Responded(route, request, resp) ==
    response' = [route |-> route, request |-> request, status |-> resp.status,
                 message |-> resp.message, data |-> resp.data, at |-> ops + 1]

\* POST /users/:id/change-password reaching its handler.
PostChangePassword ==
    /\ ops < MaxRequests
    /\ \E idParam \in IdParams, req \in ChangePasswordRequests, salt \in Salts,
          fault \in Faults("ChangePassword") :
          LET h == Handler_ChangePassword(Database, idParam, req, salt, ops + 1, fault)
          IN  /\ Responded("POST /users/:id/change-password",
                           [id |-> idParam, body |-> req], h.resp)
              /\ ops' = ops + 1
              /\ IF h.called
                 THEN /\ users' = h.out.db.users
                      /\ nextId' = h.out.db.nextId
                      /\ last' = [op |-> "ChangePassword", input |-> h.input,
                                  fault |-> fault, ret |-> h.out.ret,
                                  err |-> h.out.err, calls |-> h.out.calls,
                                  at |-> ops + 1]
                 ELSE UNCHANGED <<users, nextId, last>>
    /\ UNCHANGED <<now, config, jwt, tokenVars, gateVars, inflight>>

\* A handler handing an error to HandleDomainError.
RespondDomainError ==
    /\ ops < MaxRequests
    /\ \E err \in HandledErrors :
          Responded("HandleDomainError", err, HandleDomainError(err))
    /\ ops' = ops + 1
    /\ UNCHANGED <<now, config, jwt, tokenVars, gateVars, users, nextId, last,
                   inflight>>

(***************************************************************************)
(* SpecUpdate: UpdateUser calls supplying several fields at once, on a     *)
(* table with accounts.                                                    *)
(***************************************************************************)
UpdateUserSeveralInputs(ids) ==
    [Id : ids,
     Email : {Absent} \cup {{e} : e \in Emails},
     Username : {Absent, {"renamed"}},
     Name : {Absent},
     Role : {Absent, {RoleAdmin}, {"superuser"}},
     IsActive : {Absent}]

UpdateUserSeveral ==
    /\ ops < MaxUpdates
    /\ \E input \in UpdateUserSeveralInputs(Ids), fault \in Faults("UpdateUser") :
          Call("UpdateUser", input, fault,
               Service_UpdateUser(Database, input, ops + 1, fault))

(***************************************************************************)
(* SpecSession: a login, the clock, changes to the account that logged in, *)
(* and a request that presents the token the login returned.               *)
(***************************************************************************)
\* Handler.Login for a request that binds: the response, and the token.
Handler_Login(db, input, fault, s, t) ==
    LET out == Service_Login(db, input, fault)
        token == GenerateToken(s, out.ret.Id, out.ret.Role, t)
    IN  IF out.err # Nil
        THEN [resp |-> HandleDomainError(out.err), out |-> out,
              token |-> Str(<<>>)]
        ELSE [resp |-> HandleSuccess(StatusOK,
                           [Token |-> token, User |-> out.ret.Id]),
              out |-> out, token |-> token]

\* POST /auth/login; the client keeps the token of a successful login.
PostLogin ==
    /\ NoToken
    /\ ops < MaxOps
    /\ \E input \in LoginInputs, fault \in Faults("Login") :
          LET h == Handler_Login(Database, input, fault, jwt, now)
          IN  /\ Responded("POST /auth/login", input, h.resp)
              /\ tokenString' = h.token
              /\ issued' = IF h.out.err # Nil THEN Nil
                            ELSE [UserId |-> h.out.ret.Id, Role |-> h.out.ret.Role,
                                  at |-> now]
              /\ last' = [op |-> "Login", input |-> input, fault |-> fault,
                          ret |-> h.out.ret, err |-> h.out.err,
                          calls |-> h.out.calls, at |-> ops + 1]
    /\ ops' = ops + 1
    /\ UNCHANGED <<now, config, jwt, validated, firstExpired, gateVars, users,
                   nextId, inflight>>

\* A request to a protected route with the token of the login.
PresentToken ==
    /\ ctx = Nil
    /\ issued # Nil
    /\ \E route \in {r \in RegisteredRoutes : r.path = "GET /me"} :
          ctx' = NewContext(route,
                            [present |-> TRUE, value |-> bearerPrefix \o tokenString],
                            Itoa(issued.UserId))
    /\ validatorCalls' = 0
    /\ UNCHANGED <<now, config, jwt, tokenVars, accountVars>>

\* The call recorded in l was storage answering a change to the account the
\* token was issued to.
OnTokenHolder(l) ==
    /\ issued # Nil
    /\ l.fault = 0
    /\ l.op = "UpdateUser" => l.input.Id = issued.UserId
    /\ l.op = "DeleteUser" => l.input = issued.UserId

(***************************************************************************)
(* SpecOwn: one request to POST /users/:id/change-password through the     *)
(* chain routes/user.go registers for it, on a table with accounts.        *)
(***************************************************************************)
ChangePasswordRoute ==
    CHOOSE r \in RegisteredRoutes : r.path = "POST /users/:id/change-password"

\* Callers: no token, or a token this service issued at login to an account.
CallerHeaders(t) ==
    {[present |-> FALSE, value |-> Str(<<>>)]}
    \cup {[present |-> TRUE, value |-> bearerPrefix \o GenerateToken(jwt, id, role, t)] :
            id \in {1, 2}, role \in {RoleUser, RoleAdmin}}

NewChangePasswordRequest ==
    /\ ctx = Nil
    /\ \E header \in CallerHeaders(now), id \in IdParams :
          ctx' = NewContext(ChangePasswordRoute, header, id)
    /\ validatorCalls' = 0
    /\ UNCHANGED <<now, config, jwt, tokenVars, accountVars>>

\* Handler.ChangePassword as the last handler of the chain.
ServeChangePassword ==
    /\ Pending("ChangePassword")
    /\ ops < MaxRequests
    /\ \E req \in ChangePasswordRequests, salt \in Salts,
          fault \in Faults("ChangePassword") :
          LET idParam == Param(ctx, "id")
              h == Handler_ChangePassword(Database, idParam, req, salt, ops + 1, fault)
          IN  /\ Responded(ctx.route, [id |-> idParam, body |-> req], h.resp)
              /\ ctx' = Ran([ctx EXCEPT !.status = h.resp.status])
              /\ ops' = ops + 1
              /\ IF h.called
                 THEN /\ users' = h.out.db.users
                      /\ nextId' = h.out.db.nextId
                      /\ last' = [op |-> "ChangePassword", input |-> h.input,
                                  fault |-> fault, ret |-> h.out.ret,
                                  err |-> h.out.err, calls |-> h.out.calls,
                                  at |-> ops + 1]
                 ELSE UNCHANGED <<users, nextId, last>>
    /\ UNCHANGED <<now, config, jwt, tokenVars, validatorCalls, inflight>>

(***************************************************************************)
(* SpecConcurrent: request flows running service calls at the same time on *)
(* one database.  Each repository call is one statement of the database    *)
(* and one step; what a flow computes between two of them is its own.      *)
(***************************************************************************)
ConcurrentCreateUserInputs ==
    {i \in CreateUserInputs : i.Password # Password("wrong_password", 14)}

Done(f, op, input, fault, ret, err, calls) ==
    [inflight EXCEPT ![f] = [pc |-> "done", op |-> op, input |-> input,
                             fault |-> fault, ret |-> ret, err |-> err,
                             calls |-> calls]]

\* Service.CreateUser up to its first repository call: the role check.
BeginCreateUser(f) ==
    /\ inflight[f].pc = "idle"
    /\ \E input \in ConcurrentCreateUserInputs :
          inflight' =
              IF ~IsValidRole(input.Role)
              THEN Done(f, "CreateUser", input, FALSE, 0,
                        InvalidRoleError(input.Role), <<>>)
              ELSE [inflight EXCEPT ![f] = [pc |-> "ExistsUserByEmail",
                                            op |-> "CreateUser",
                                            input |-> input]]
    /\ ops' = ops + 1
    /\ UNCHANGED <<now, config, jwt, tokenVars, gateVars, users, nextId, last,
                   response>>

\* Service.CreateUser: the existence check, then the hashing of the password.
CheckEmail(f) ==
    /\ inflight[f].pc = "ExistsUserByEmail"
    /\ \E fail \in BOOLEAN :
          LET input == inflight[f].input
              found == Repository_ExistsUserByEmail(Database, input.Email, fail)
              hashed == Hash(input.Password, f)
          IN  inflight' =
                  IF found.err # NoErr
                  THEN Done(f, "CreateUser", input, fail, 0,
                            InternalServerError("failed to check email existence",
                                                found.err),
                            <<"ExistsUserByEmail">>)
                  ELSE IF found.exists
                  THEN Done(f, "CreateUser", input, fail, 0,
                            UserAlreadyExistsError(input.Email),
                            <<"ExistsUserByEmail">>)
                  ELSE IF hashed.err # NoErr
                  THEN Done(f, "CreateUser", input, fail, 0,
                            InternalServerError("failed to hash password",
                                                hashed.err),
                            <<"ExistsUserByEmail", "Hash">>)
                  ELSE [inflight EXCEPT ![f] = [pc |-> "InsertUser",
                                                op |-> "CreateUser",
                                                input |-> input,
                                                hashed |-> hashed.hash]]
    /\ UNCHANGED <<now, config, jwt, tokenVars, gateVars, users, nextId, ops,
                   last, response>>

\* Service.CreateUser: the insert, and what is made of its result.
InsertRow(f) ==
    /\ inflight[f].pc = "InsertUser"
    /\ \E fail \in BOOLEAN :
          LET input == inflight[f].input
              user == [Id |-> 0, Email |-> input.Email,
                       Username |-> input.Username,
                       Password |-> inflight[f].hashed, Name |-> input.Name,
                       Role |-> input.Role, IsActive |-> TRUE,
                       CreatedAt |-> 0, UpdatedAt |-> 0]
              inserted == Repository_InsertUser(Database, user, ops, fail)
              calls == <<"ExistsUserByEmail", "Hash", "InsertUser">>
          IN  /\ users' = inserted.db.users
              /\ nextId' = inserted.db.nextId
              /\ inflight' =
                    IF inserted.err # NoErr
                    THEN IF Is(inserted.err, repository_ErrDuplicateEmail)
                         THEN Done(f, "CreateUser", input, fail, 0,
                                   UserAlreadyExistsError(input.Email), calls)
                         ELSE Done(f, "CreateUser", input, fail, 0,
                                   InternalServerError("failed to create user",
                                                       inserted.err), calls)
                    ELSE Done(f, "CreateUser", input, fail, inserted.id, Nil, calls)
    /\ UNCHANGED <<now, config, jwt, tokenVars, gateVars, ops, last, response>>

\* Inputs of the concurrent UpdateUser calls: one field each.
ConcurrentUpdateUserInputs(ids) ==
    {[Id |-> id, Email |-> f.Email, Username |-> f.Username, Name |-> f.Name,
      Role |-> f.Role, IsActive |-> f.IsActive] :
        id \in ids,
        f \in {[NoUpdate EXCEPT !.Email = {e}] : e \in Emails}
              \cup {[NoUpdate EXCEPT !.Username = {"renamed"}],
                    [NoUpdate EXCEPT !.Role = {RoleAdmin}],
                    [NoUpdate EXCEPT !.IsActive = {FALSE}]}}

\* Service.UpdateUser between its existence check and its storage update:
\* the fields assigned to the struct it read, the role check, hasChanges.
\* user is the struct as GetUserById filled it.
AssignFields(f, input, user, calls, fail) ==
    LET hasChanges ==
            \/ Changes(input.Email, user.Email)
            \/ Changes(input.Username, user.Username)
            \/ Changes(input.Name, user.Name)
            \/ Changes(input.Role, user.Role)
            \/ Changes(input.IsActive, user.IsActive)
        assigned ==
            [user EXCEPT
                !.Email = IF Changes(input.Email, @) THEN Deref(input.Email) ELSE @,
                !.Username = IF Changes(input.Username, @)
                             THEN Deref(input.Username) ELSE @,
                !.Name = IF Changes(input.Name, @) THEN Deref(input.Name) ELSE @,
                !.Role = IF Changes(input.Role, @) THEN Deref(input.Role) ELSE @,
                !.IsActive = IF Changes(input.IsActive, @)
                             THEN Deref(input.IsActive) ELSE @]
    IN  IF Changes(input.Role, user.Role) /\ ~IsValidRole(Deref(input.Role))
        THEN Done(f, "UpdateUser", input, fail, Nil,
                  InvalidRoleError(Deref(input.Role)), calls)
        ELSE IF ~hasChanges
        THEN Done(f, "UpdateUser", input, fail, Nil, Nil, calls)
        ELSE [inflight EXCEPT ![f] = [pc |-> "UpdateUser", op |-> "UpdateUser",
                                      input |-> input, user |-> assigned,
                                      calls |-> calls]]

\* Service.UpdateUser up to its first repository call and through it: the
\* read of the account.
BeginUpdateUser(f) ==
    /\ inflight[f].pc = "idle"
    /\ \E input \in ConcurrentUpdateUserInputs(Ids), fail \in BOOLEAN :
          LET got == Repository_GetUserById(Database, input.Id, fail)
          IN  inflight' =
                  IF got.err # NoErr
                  THEN IF Is(got.err, repository_ErrUserNotFound)
                       THEN Done(f, "UpdateUser", input, fail, Nil,
                                 UserNotFoundError(input.Id, ""), <<"GetUserById">>)
                       ELSE Done(f, "UpdateUser", input, fail, Nil,
                                 InternalServerError("failed to get user", got.err),
                                 <<"GetUserById">>)
                  ELSE IF Changes(input.Email, got.user.Email)
                  THEN [inflight EXCEPT ![f] = [pc |-> "CheckNewEmail",
                                                op |-> "UpdateUser",
                                                input |-> input,
                                                user |-> got.user]]
                  ELSE AssignFields(f, input, got.user, <<"GetUserById">>, fail)
    /\ ops' = ops + 1
    /\ UNCHANGED <<now, config, jwt, tokenVars, gateVars, users, nextId, last,
                   response>>

\* Service.UpdateUser: the existence check of the new email.
CheckNewEmail(f) ==
    /\ inflight[f].pc = "CheckNewEmail"
    /\ \E fail \in BOOLEAN :
          LET input == inflight[f].input
              found == Repository_ExistsUserByEmail(Database, Deref(input.Email),
                                                    fail)
              calls == <<"GetUserById", "ExistsUserByEmail">>
          IN  inflight' =
                  IF found.err # NoErr
                  THEN Done(f, "UpdateUser", input, fail, Nil,
                            InternalServerError("failed to check email existence",
                                                found.err), calls)
                  ELSE IF found.exists
                  THEN Done(f, "UpdateUser", input, fail, Nil,
                            UserAlreadyExistsError(Deref(input.Email)), calls)
                  ELSE AssignFields(f, input, inflight[f].user, calls, fail)
    /\ UNCHANGED <<now, config, jwt, tokenVars, gateVars, users, nextId, ops,
                   last, response>>

\* Service.UpdateUser: the storage update of the struct, and what is made of
\* its result.
StoreUser(f) ==
    /\ inflight[f].pc = "UpdateUser"
    /\ \E fail \in BOOLEAN :
          LET input == inflight[f].input
              stored == Repository_UpdateUser(Database, inflight[f].user, ops, fail)
              calls == Append(inflight[f].calls, "UpdateUser")
          IN  /\ users' = stored.db.users
              /\ nextId' = stored.db.nextId
              /\ inflight' =
                    IF stored.err # NoErr
                    THEN IF Is(stored.err, repository_ErrDuplicateEmail)
                         THEN Done(f, "UpdateUser", input, fail, Nil,
                                   UserAlreadyExistsError(inflight[f].user.Email),
                                   calls)
                         ELSE Done(f, "UpdateUser", input, fail, Nil,
                                   InternalServerError("failed to update user",
                                                       stored.err), calls)
                    ELSE Done(f, "UpdateUser", input, fail, Nil, Nil, calls)
    /\ UNCHANGED <<now, config, jwt, tokenVars, gateVars, ops, last, response>>

\* Service.DeleteUser: its one repository call.
DeleteRow(f) ==
    /\ inflight[f].pc = "idle"
    /\ \E id \in Ids, fail \in BOOLEAN :
          LET deleted == Repository_DeleteUserById(Database, id, fail)
          IN  /\ users' = deleted.db.users
              /\ nextId' = deleted.db.nextId
              /\ inflight' =
                    IF deleted.err # NoErr
                    THEN IF Is(deleted.err, repository_ErrUserNotFound)
                         THEN Done(f, "DeleteUser", id, fail, Nil,
                                   UserNotFoundError(id, ""), <<"DeleteUserById">>)
                         ELSE Done(f, "DeleteUser", id, fail, Nil,
                                   InternalServerError("failed to delete user",
                                                       deleted.err),
                                   <<"DeleteUserById">>)
                    ELSE Done(f, "DeleteUser", id, fail, Nil, Nil,
                              <<"DeleteUserById">>)
    /\ ops' = ops + 1
    /\ UNCHANGED <<now, config, jwt, tokenVars, gateVars, last, response>>

(***************************************************************************)
(* Login's failures.                                                       *)
(***************************************************************************)
LastWas(op) == last # Nil /\ last.op = op

\* The last call was a Login that storage answered, for an email with no row.
LoginNoAccount ==
    /\ LastWas("Login")
    /\ last.fault = 0
    /\ RowsByEmail(Database, last.input.Email) = {}

\* ... for the email of an inactive account.
LoginInactive ==
    /\ LastWas("Login")
    /\ last.fault = 0
    /\ \E r \in RowsByEmail(Database, last.input.Email) : ~r.IsActive

\* ... for the email of an active account, with a password that does not verify.
LoginWrongPassword ==
    /\ LastWas("Login")
    /\ last.fault = 0
    /\ \E r \in RowsByEmail(Database, last.input.Email) :
          r.IsActive /\ Compare(r.Password, last.input.Password) # NoErr

\* C1: Login returns the same InvalidCredentialsError, and no other error
\* kind, when storage reports no account for the email (the postgres
\* repository reporting it with its own not-found error), when the account is
\* inactive, and when the account is active but the password does not verify.
C1_LoginFailuresAreInvalidCredentials ==
    (LoginNoAccount \/ LoginInactive \/ LoginWrongPassword)
        => last.err = InvalidCredentialsError

\* The two cases of C1 that do not go through the not-found sentinel.
C1_KnownAccountFailures ==
    (LoginInactive \/ LoginWrongPassword) => last.err = InvalidCredentialsError

(***************************************************************************)
(* The account service, one call after another: claims under SpecAccount.  *)
(***************************************************************************)
\* This step is a call of op that returns what last' records.
Calls(op) == ops' = ops + 1 /\ last'.op = op

\* C14: CreateUser with a valid role and an email for which the storage
\* existence check answers true returns UserAlreadyExistsError for that email
\* and id 0, having called neither the hasher nor the storage insert: the
\* table and its id sequence are as before.
C14_CreateUserExistingEmail ==
    [][(/\ Calls("CreateUser")
        /\ IsValidRole(last'.input.Role)
        /\ last'.fault # 1
        /\ RowsByEmail(Database, last'.input.Email) # {})
       => /\ last'.err = UserAlreadyExistsError(last'.input.Email)
          /\ last'.ret = 0
          /\ last'.calls = <<"ExistsUserByEmail">>
          /\ users' = users
          /\ nextId' = nextId]_vars

C14_Witness ==
    /\ LastWas("CreateUser")
    /\ last.fault = 0
    /\ last.input.Role = RoleAdmin
    /\ last.err = UserAlreadyExistsError(last.input.Email)
    /\ last.calls = <<"ExistsUserByEmail">>
    /\ Cardinality(users) = 1

\* Every field the input supplies equals what row stores.
NothingDiffers(input, row) ==
    /\ ~Changes(input.Email, row.Email)
    /\ ~Changes(input.Username, row.Username)
    /\ ~Changes(input.Name, row.Name)
    /\ ~Changes(input.Role, row.Role)
    /\ ~Changes(input.IsActive, row.IsActive)

\* C16: UpdateUser on an existing account, with no supplied field differing
\* from the stored value, returns success without calling the storage
\* update and leaves the table, updated-at included, as it was; and the
\* input of an UpdateUser that has just been applied, given again, is such a
\* call.
C16_UpdateUserNoOp ==
    [][(/\ Calls("UpdateUser")
        /\ last'.fault # 1
        /\ RowsById(Database, last'.input.Id) # {})
       => LET row == TheRow(RowsById(Database, last'.input.Id))
              repeated == /\ LastWas("UpdateUser")
                          /\ last.err = Nil
                          /\ last.input = last'.input
          IN  /\ repeated => NothingDiffers(last'.input, row)
              /\ NothingDiffers(last'.input, row)
                    => /\ last'.err = Nil
                       /\ last'.calls = <<"GetUserById">>
                       /\ users' = users]_vars

C16_Witness ==
    /\ LastWas("UpdateUser")
    /\ last.err = Nil
    /\ last.calls = <<"GetUserById">>
    /\ last.input.IsActive = {FALSE}
    /\ \E r \in RowsById(Database, last.input.Id) :
          ~r.IsActive /\ r.UpdatedAt < ops

\* UpdateUser with this input on this table gets as far as the role check.
UpdateUserReachesRoleCheck(db, input, fault) ==
    /\ fault # 1
    /\ \E r \in RowsById(db, input.Id) :
          Changes(input.Email, r.Email)
             => fault # 2 /\ RowsByEmail(db, Deref(input.Email)) = {}

\* C23: after any sequence of CreateUser and UpdateUser calls every stored
\* account's role is one of admin, user, viewer.  A call supplying any other
\* role returns an error and leaves the table as it was: CreateUser returns
\* InvalidRoleError for the role without a single collaborator call, and
\* UpdateUser returns InvalidRoleError for it whenever the account was read
\* and the email the input supplies, if it changes, passed its check.
C23_RolesStayValid ==
    /\ [](\A r \in users : r.Role \in {"admin", "user", "viewer"})
    /\ [][(/\ Calls("CreateUser")
            /\ last'.input.Role \notin {"admin", "user", "viewer"})
           => /\ last'.err = InvalidRoleError(last'.input.Role)
              /\ last'.calls = <<>>
              /\ users' = users
              /\ nextId' = nextId]_vars
    /\ [][(/\ Calls("UpdateUser")
            /\ last'.input.Role # Absent
            /\ Deref(last'.input.Role) \notin {"admin", "user", "viewer"})
           => /\ last'.err # Nil
              /\ users' = users
              /\ UpdateUserReachesRoleCheck(Database, last'.input, last'.fault)
                    => last'.err = InvalidRoleError(Deref(last'.input.Role))]_vars

\* An UpdateUser to role superuser was refused and the account keeps its role.
C23_Witness ==
    /\ LastWas("UpdateUser")
    /\ last.input.Role = {"superuser"}
    /\ last.err = InvalidRoleError("superuser")
    /\ HTTPStatus(last.err) = 400
    /\ \E r \in RowsById(Database, last.input.Id) : r.Role = RoleAdmin

\* C19: when storage reports with postgres.ErrNoUser that the account does
\* not exist, GetUserById, UpdateUser and DeleteUser return UserNotFoundError
\* for the id, not InternalServerError.
C19_NotFoundIs404 ==
    /\ (/\ last # Nil
        /\ last.op \in {"GetUserById", "UpdateUser"}
        /\ last.fault = 0
        /\ RowsById(Database, IF last.op = "UpdateUser" THEN last.input.Id
                              ELSE last.input) = {})
          => (last.err = UserNotFoundError(
                             IF last.op = "UpdateUser" THEN last.input.Id
                             ELSE last.input, "")
              /\ HTTPStatus(last.err) = 404)
    /\ (LastWas("DeleteUser") /\ last.fault = 0 /\ last.err # Nil)
          => (last.err = UserNotFoundError(last.input, "")
              /\ HTTPStatus(last.err) = 404)

(***************************************************************************)
(* Changing a password: claims under SpecPassword.                         *)
(***************************************************************************)
\* The digest was made from this secret (from its first 72 bytes).
DigestOf(digest, password) == digest.keyed = Keyed(password)

\* C17: ChangePassword whose current secret does not verify against the
\* stored digest returns InvalidCredentialsError, the error Login returns for
\* that account and that secret, having called neither Hash nor
\* UpdateUserPassword: the table, the stored digest in it, is as before.
C17_ChangePasswordWrongCurrent ==
    [][(/\ Calls("ChangePassword")
        /\ last'.fault # 1
        /\ \E r \in RowsById(Database, last'.input.UserId) :
              ~DigestOf(r.Password, last'.input.CurrentPassword))
       => LET row == TheRow(RowsById(Database, last'.input.UserId))
              login == Service_Login(Database,
                           [Email |-> row.Email,
                            Password |-> last'.input.CurrentPassword], 0)
          IN  /\ last'.err = InvalidCredentialsError
              /\ HTTPStatus(last'.err) = 401
              /\ login.err # Nil
              /\ last'.err = login.err
              /\ last'.calls = <<"GetUserById", "Compare">>
              /\ users' = users]_vars

C17_Witness ==
    /\ LastWas("ChangePassword")
    /\ last.fault = 0
    /\ last.input.CurrentPassword = Password("wrong_password", 14)
    /\ last.input.NewPassword = Password("password123", 11)
    /\ last.err = InvalidCredentialsError
    /\ \E r \in RowsById(Database, last.input.UserId) :
          DigestOf(r.Password, Password("password123", 11))

\* CreateUser with this input on this table gets as far as hashing.
CreateUserReachesHash(db, input, fault) ==
    /\ IsValidRole(input.Role)
    /\ fault # 1
    /\ RowsByEmail(db, input.Email) = {}

\* ChangePassword with this input on this table gets as far as hashing.
ChangePasswordReachesHash(db, input, fault) ==
    /\ fault # 1
    /\ \E r \in RowsById(db, input.UserId) :
          DigestOf(r.Password, input.CurrentPassword)

HashFailure == InternalServerError("failed to hash password", ErrPasswordTooLong)

\* C22: hashing a secret longer than 72 bytes fails with an error and an
\* empty digest; CreateUser and ChangePassword given such a secret, one of
\* at most 100 bytes that request validation lets through included, return
\* an error and leave the table and its id sequence as they were, and the
\* error is InternalServerError from the hashing step whenever the call
\* gets that far, the storage write never being called.
C22_LongSecretFailsHashing ==
    /\ [](\A p \in Passwords, salt \in Salts :
            p.len > MaxPasswordBytes
               => Hash(p, salt) = [hash |-> NoDigest, err |-> ErrPasswordTooLong])
    /\ [][(/\ Calls("CreateUser")
            /\ last'.input.Password.len > MaxPasswordBytes)
           => /\ last'.err # Nil
              /\ users' = users
              /\ nextId' = nextId
              /\ CreateUserReachesHash(Database, last'.input, last'.fault)
                    => /\ last'.err = HashFailure
                       /\ last'.calls = <<"ExistsUserByEmail", "Hash">>]_vars
    /\ [][(/\ Calls("ChangePassword")
            /\ last'.input.NewPassword.len > MaxPasswordBytes)
           => /\ last'.err # Nil
              /\ users' = users
              /\ nextId' = nextId
              /\ ChangePasswordReachesHash(Database, last'.input, last'.fault)
                    => /\ last'.err = HashFailure
                       /\ last'.calls = <<"GetUserById", "Compare", "Hash">>]_vars

\* A password change to a 100-byte secret, which the request binding
\* accepts, failed at hashing and the old secret still verifies.
C22_Witness ==
    /\ LastWas("ChangePassword")
    /\ last.input.NewPassword.len > MaxPasswordBytes
    /\ BindChangePasswordRequest(
           ChangePasswordRequest(last.input.CurrentPassword,
                                 last.input.NewPassword)) = NoErr
    /\ last.err = HashFailure
    /\ HTTPStatus(last.err) = 500
    /\ \E r \in RowsById(Database, last.input.UserId) :
          DigestOf(r.Password, last.input.CurrentPassword)

(***************************************************************************)
(* What is stored of a credential: claims under SpecStored.                *)
(***************************************************************************)
\* digest is what Hash returns for this secret with some salt.
HashedFrom(digest, password) ==
    \E salt \in Salts :
        Hash(password, salt) = [hash |-> digest, err |-> NoErr]

\* The stored password of account id, before and after the step.
StoredPassword(rows, id) == {r.Password : r \in {x \in rows : x.Id = id}}

\* C24: after any sequence of CreateUser, UpdateUser and ChangePassword
\* calls the password field of every stored account is a digest Hash
\* returned, never a plaintext secret: a successful CreateUser stores one new
\* account, active, with a digest of the secret it was given; a successful
\* ChangePassword stores a digest of the new secret for its account; and no
\* other step (UpdateUser, a failed call) changes a stored password.
C24_OnlyDigestStored ==
    /\ [](\A r \in users :
            /\ r.Password \notin Passwords
            /\ \E p \in Passwords : HashedFrom(r.Password, p))
    /\ [][(Calls("CreateUser") /\ last'.err = Nil)
           => \E r \in users' :
                 /\ users' = users \cup {r}
                 /\ RowsById(Database, r.Id) = {}
                 /\ r.Id = last'.ret
                 /\ HashedFrom(r.Password, last'.input.Password)
                 /\ r.Password # last'.input.Password
                 /\ r.IsActive]_vars
    /\ [][(Calls("ChangePassword") /\ last'.err = Nil)
           => /\ \A pw \in StoredPassword(users', last'.input.UserId) :
                    /\ HashedFrom(pw, last'.input.NewPassword)
                    /\ pw # last'.input.NewPassword
              /\ StoredPassword(users', last'.input.UserId) # {}
              /\ \A r \in users : r.Id # last'.input.UserId => r \in users']_vars
    /\ [][~((Calls("CreateUser") \/ Calls("ChangePassword")) /\ last'.err = Nil)
           => \A r \in users' : StoredPassword(users, r.Id) = {r.Password}]_vars

\* An account created with one secret, renamed, then given another secret:
\* the stored digest is of the second secret and not of the first.
C24_Witness ==
    /\ LastWas("ChangePassword")
    /\ last.err = Nil
    /\ last.input.CurrentPassword = Password("password123", 11)
    /\ last.input.NewPassword = Password("wrong_password", 14)
    /\ \E r \in RowsById(Database, last.input.UserId) :
          /\ HashedFrom(r.Password, Password("wrong_password", 14))
          /\ ~HashedFrom(r.Password, Password("password123", 11))
          /\ r.Username = "renamed"
          /\ r.IsActive

(***************************************************************************)
(* The handlers: claims under SpecHandler.                                 *)
(***************************************************************************)
\* This step answers a request to route.
Answers(route) == ops' = ops + 1 /\ response' # Nil /\ response'.at = ops'
                  /\ response'.route = route

\* C18: a change-password request whose new secret equals its current secret
\* is answered 400 before the service is called: the step makes no service
\* call (no storage read, no verification, no hashing) and leaves the table,
\* the stored digests in it, as it was; when the path id and the body's
\* fields are well-formed the answer is Validate's message.
C18_SamePasswordRejectedAtValidation ==
    [][(/\ Answers("POST /users/:id/change-password")
        /\ response'.request.body.CurrentPassword
              = response'.request.body.NewPassword)
       => /\ response'.status = StatusBadRequest
          /\ last' = last
          /\ users' = users
          /\ (/\ Atoi(response'.request.id).ok
              /\ BindChangePasswordRequest(response'.request.body) = NoErr)
                => response'.message
                     = <<"new password must be different from current password">>]_vars

C18_Witness ==
    /\ response # Nil
    /\ response.route = "POST /users/:id/change-password"
    /\ response.request.id = Itoa(1)
    /\ response.request.body.CurrentPassword = Password("password123", 11)
    /\ response.request.body.NewPassword = Password("password123", 11)
    /\ response.status = StatusBadRequest
    /\ \E r \in RowsById(Database, 1) :
          DigestOf(r.Password, Password("password123", 11))

\* C20: HandleDomainError, given an error that is not a tagged Domain Error,
\* responds 500 with a message that contains nothing of the error's own
\* text.
C20_UntaggedErrorNotLeaked ==
    (/\ response # Nil
     /\ response.route = "HandleDomainError"
     /\ ~IsDomainError(response.request))
        => /\ response.status = StatusInternalServerError
           /\ \A i \in 1..Len(response.message) :
                 response.message[i] # response.request.text

\* The half of C20 that holds: an untagged error is answered 500.
C20_UntaggedErrorIs500 ==
    (/\ response # Nil
     /\ response.route = "HandleDomainError"
     /\ ~IsDomainError(response.request))
        => response.status = StatusInternalServerError

\* C21: every Domain Error kind maps to one fixed status whatever its field
\* values (InternalServerError 500, UnauthorizedError 401, ForbiddenError 403,
\* ValidationError 400, InvalidRoleError 400, UserNotFoundError 404,
\* UserAlreadyExistsError 409, InvalidCredentialsError 401), and
\* HandleDomainError responds with exactly that status.
C21_KindFixesStatus ==
    (/\ response # Nil
     /\ response.route = "HandleDomainError"
     /\ IsDomainError(response.request))
        => LET kind == response.request.kind
           IN  /\ response.status =
                     CASE kind = "InternalServerError" -> 500
                       [] kind = "UnauthorizedError" -> 401
                       [] kind = "ForbiddenError" -> 403
                       [] kind = "ValidationError" -> 400
                       [] kind = "InvalidRoleError" -> 400
                       [] kind = "UserNotFoundError" -> 404
                       [] kind = "UserAlreadyExistsError" -> 409
                       [] kind = "InvalidCredentialsError" -> 401
               /\ \A e \in HandledErrors :
                     (IsDomainError(e) /\ e.kind = kind)
                        => HandleDomainError(e).status = response.status

\* A not-found error with neither id nor email was answered 404.
C21_Witness ==
    /\ response # Nil
    /\ response.route = "HandleDomainError"
    /\ response.request = UserNotFoundError(0, "")
    /\ response.status = 404
    /\ response.message = <<"user not found">>

(***************************************************************************)
(* UpdateUser failing part way: claims under SpecUpdate.                   *)
(***************************************************************************)
\* The call recorded in l got as far as the storage update.
StorageUpdateCalled(l) == \E i \in 1..Len(l.calls) : l.calls[i] = "UpdateUser"

\* On this table the input runs into one of the errors UpdateUser raises
\* before its storage update: the account is not read, the new email's
\* existence check fails or finds the email taken, the new role is invalid.
FailsBeforeUpdate(db, input, fault) ==
    \/ fault = 1
    \/ RowsById(db, input.Id) = {}
    \/ \E r \in RowsById(db, input.Id) :
          \/ /\ Changes(input.Email, r.Email)
             /\ fault = 2 \/ RowsByEmail(db, Deref(input.Email)) # {}
          \/ /\ Changes(input.Role, r.Role)
             /\ Deref(input.Role) \notin {"admin", "user", "viewer"}

\* C27: an UpdateUser that returns an error raised before the storage update
\* call leaves the table as it was, every field of the account included,
\* also when fields examined earlier in the input were valid changes; and
\* an input that runs into such an error (account not found, new email
\* taken, invalid new role, failing existence check) returns an error
\* without calling the storage update.
C27_FailedUpdateWritesNothing ==
    /\ [][(/\ Calls("UpdateUser")
            /\ last'.err # Nil
            /\ ~StorageUpdateCalled(last'))
           => users' = users /\ nextId' = nextId]_vars
    /\ [][(/\ Calls("UpdateUser")
            /\ FailsBeforeUpdate(Database, last'.input, last'.fault))
           => /\ last'.err # Nil
              /\ ~StorageUpdateCalled(last')
              /\ users' = users]_vars

\* A new free email and a new username, both valid changes, came before an
\* invalid role: the call was refused and the account has its old email and
\* username.
C27_Witness ==
    /\ LastWas("UpdateUser")
    /\ last.fault = 0
    /\ last.input.Email = {"other@example.com"}
    /\ last.input.Username = {"renamed"}
    /\ last.input.Role = {"superuser"}
    /\ last.err = InvalidRoleError("superuser")
    /\ last.calls = <<"GetUserById", "ExistsUserByEmail">>
    /\ RowsByEmail(Database, "other@example.com") = {}
    /\ \E r \in RowsById(Database, last.input.Id) :
          /\ r.Email = "test@example.com"
          /\ r.Username = "testuser"
          /\ r.UpdatedAt = 0

(***************************************************************************)
(* A token and its account: claims under SpecSession.                      *)
(***************************************************************************)
\* RequireAuth has decided on a request presenting the token of the login.
SessionTokenJudged ==
    /\ issued # Nil
    /\ HasRun("RequireAuth")
    /\ PresentedToken = tokenString

\* C30: RequireAuth decides on a token issued at login by the token and the
\* clock alone: before the token's expiry the request passes and the
\* identity installed is the id and role the account had at login, from the
\* expiry on it is rejected with 401, whether or not the account has since
\* been deactivated, deleted or given another role.
C30_GateIgnoresStorage ==
    SessionTokenJudged
        => IF ctx.authAt < TokExpiry
           THEN /\ ~RejectedBy("RequireAuth")
                /\ IdentityInstalled
                /\ GetUserId(ctx) = issued.UserId
                /\ GetUserRole(ctx) = issued.Role
           ELSE /\ Rejected401("invalid token", ErrExpiredToken)
                /\ ~IdentityInstalled

\* The account was deleted after its login and its token still reached the
\* handler, installing the id and role of the login.
C30_Witness ==
    /\ SessionTokenJudged
    /\ RowsById(Database, issued.UserId) = {}
    /\ ctx.authAt > issued.at
    /\ EndpointRan
    /\ GetUserId(ctx) = issued.UserId
    /\ GetUserRole(ctx) = RoleUser

(***************************************************************************)
(* Whose password a request changes: claims under SpecOwn.                 *)
(***************************************************************************)
\* The request changed the stored password of account id.
PasswordChanged(id) ==
    /\ response # Nil
    /\ response.status = StatusOK
    /\ LastWas("ChangePassword")
    /\ last.at = response.at
    /\ last.err = Nil
    /\ last.input.UserId = id
    /\ \E r \in RowsById(Database, id) :
          HashedFrom(r.Password, last.input.NewPassword)

\* C26: POST /users/:id/change-password changes the password of account :id
\* only when the caller's installed identity id equals :id or the caller's
\* installed role is admin.
C26_SelfOrAdminOnly ==
    \A id \in Ids :
        PasswordChanged(id)
            => /\ IdentityInstalled
               /\ GetUserId(ctx) = id \/ GetUserRole(ctx) = RoleAdmin

\* What does hold of a password change through the route: the caller's token
\* verified, and the request carried the secret the account had.
C26_VerifiedCallerOnly ==
    \A id \in Ids :
        PasswordChanged(id)
            => /\ TokenVerified
               /\ IdentityInstalled
               /\ last.calls = <<"GetUserById", "Compare", "Hash", "UpdateUserPassword">>

(***************************************************************************)
(* Concurrent calls: claims under SpecConcurrent.                          *)
(***************************************************************************)
\* Flows f and g each ran CreateUser for the same email, both passed the
\* existence check, and the database answered both inserts.
RacedCreateUser(f, g) ==
    /\ f # g
    /\ inflight[f].pc = "done" /\ inflight[g].pc = "done"
    /\ inflight[f].op = "CreateUser" /\ inflight[g].op = "CreateUser"
    /\ inflight[f].input.Email = inflight[g].input.Email
    /\ inflight[f].calls = <<"ExistsUserByEmail", "Hash", "InsertUser">>
    /\ inflight[g].calls = <<"ExistsUserByEmail", "Hash", "InsertUser">>
    /\ ~inflight[f].fault /\ ~inflight[g].fault

\* C15: of two concurrent CreateUser calls for the same email that both pass
\* the existence check before either inserts, one succeeds and the other
\* returns UserAlreadyExistsError (409), as in the sequential duplicate case.
C15_ConcurrentDuplicate ==
    \A f, g \in Flows :
        (RacedCreateUser(f, g) /\ inflight[f].err = Nil)
            => /\ Cardinality(RowsByEmail(Database, inflight[f].input.Email)) = 1
               /\ inflight[g].err = UserAlreadyExistsError(inflight[g].input.Email)
               /\ HTTPStatus(inflight[g].err) = 409

\* The half of C15 that holds: exactly one of the two inserts succeeds and
\* exactly one row has the email.
C15_OneInsertSucceeds ==
    \A f, g \in Flows :
        RacedCreateUser(f, g)
            => /\ (inflight[f].err = Nil) # (inflight[g].err = Nil)
               /\ Cardinality(RowsByEmail(Database, inflight[f].input.Email)) = 1

Init == InitToken /\ InitGate /\ InitAccount

NextToken ==
    \/ Tick
    \/ IssueToken
    \/ PresentForeignToken
    \/ PresentMalformedToken
    \/ Validate

SpecToken == Init /\ [][NextToken]_vars

NextGate ==
    \/ Tick
    \/ NewRequest
    \/ ServeRequireAuth
    \/ ServeRequireRole
    \/ ServeRequireAdminOrSelf
    \/ ServeEndpoint

SpecGate == Init /\ [][NextGate]_vars

NextAccount ==
    \/ CreateUser
    \/ GetUserById
    \/ UpdateUser
    \/ DeleteUser
    \/ Login

\* The server as cmd/server/main.go starts it: one token configuration.
InitServer ==
    /\ Init
    /\ config = [SecretKey |-> "secret-key-1", TokenDuration |-> 0, Issuer |-> ""]

SpecAccount == InitServer /\ [][NextAccount]_vars

NextPassword ==
    \/ CreateUser
    \/ ChangePassword
    \/ Login

SpecPassword == InitServer /\ [][NextPassword]_vars

\* The three writing operations over a storage driver that answers every
\* query.
NextStored ==
    \/ CreateUser /\ last'.fault = 0
    \/ UpdateUser /\ last'.fault = 0
    \/ ChangePassword /\ last'.fault = 0

SpecStored == InitServer /\ [][NextStored]_vars

NextConcurrent ==
    \E f \in Flows :
        \/ BeginCreateUser(f)
        \/ CheckEmail(f)
        \/ InsertRow(f)

SpecConcurrent == InitServer /\ [][NextConcurrent]_vars

NextHandler ==
    \/ PostChangePassword
    \/ RespondDomainError

\* The server with some accounts registered.
InitHandler ==
    /\ InitToken
    /\ config = [SecretKey |-> "secret-key-1", TokenDuration |-> 0, Issuer |-> ""]
    /\ InitGate
    /\ \E db \in SeededDatabases : users = db.users /\ nextId = db.nextId
    /\ ops = 0
    /\ last = Nil
    /\ response = Nil
    /\ inflight = [f \in Flows |-> Idle]

SpecHandler == InitHandler /\ [][NextHandler]_vars

\* Concurrent flows of CreateUser, UpdateUser and DeleteUser on a table with
\* accounts.
(***************************************************************************)
(* Concurrent writes to the table: claims under SpecRace.                  *)
(***************************************************************************)
\* Flow f ran op to its end.
Finished(f, op) == inflight[f].pc = "done" /\ inflight[f].op = op

\* C28: after any interleaving of concurrent CreateUser, UpdateUser and
\* DeleteUser calls no two stored accounts have the same email.
C28_EmailsUnique ==
    \A r1, r2 \in users : r1.Email = r2.Email => r1 = r2

\* An UpdateUser to a new email and a CreateUser for that email both passed
\* their existence checks; the insert went first and the update was refused
\* by the table.
C28_Witness ==
    \E f, g \in Flows :
        /\ Finished(f, "UpdateUser")
        /\ Finished(g, "CreateUser")
        /\ inflight[f].input.Email = {inflight[g].input.Email}
        /\ inflight[g].err = Nil
        /\ inflight[f].calls = <<"GetUserById", "ExistsUserByEmail", "UpdateUser">>
        /\ inflight[f].err = InternalServerError("failed to update user",
                                                 postgres_ErrDuplicateEmail)
        /\ Cardinality(RowsByEmail(Database, inflight[g].input.Email)) = 1
        /\ Cardinality(users) = 2

\* The fields of UpdateUserInput.
Fields == {"Email", "Username", "Name", "Role", "IsActive"}

\* Flows f and g each ran UpdateUser on the same account, supplying
\* disjoint fields, and both returned success after their storage update.
DisjointUpdates(f, g) ==
    /\ f # g
    /\ Finished(f, "UpdateUser") /\ Finished(g, "UpdateUser")
    /\ inflight[f].input.Id = inflight[g].input.Id
    /\ inflight[f].err = Nil /\ inflight[g].err = Nil
    /\ StorageUpdateCalled(inflight[f]) /\ StorageUpdateCalled(inflight[g])
    /\ \A k \in Fields :
          inflight[f].input[k] = Absent \/ inflight[g].input[k] = Absent

\* C29: when two UpdateUser calls on the same account supplying disjoint
\* fields run concurrently and both return success, the stored record
\* carries both changes: no call writes back a stale value of a field it
\* did not supply.
C29_BothChangesKept ==
    \A f, g \in Flows :
        DisjointUpdates(f, g)
            => \E r \in RowsById(Database, inflight[f].input.Id) :
                  \A k \in Fields, h \in {f, g} :
                      inflight[h].input[k] # Absent
                          => r[k] = Deref(inflight[h].input[k])

\* What does hold of them: the stored record carries the change of at least
\* one of the two calls, and every field neither supplied is as it was read.
C29_OneChangeKept ==
    \A f, g \in Flows :
        DisjointUpdates(f, g)
            => \E r \in RowsById(Database, inflight[f].input.Id) :
                  \E h \in {f, g} :
                      \A k \in Fields :
                          inflight[h].input[k] # Absent
                              => r[k] = Deref(inflight[h].input[k])

NextRace ==
    \E f \in Flows :
        \/ BeginCreateUser(f)
        \/ CheckEmail(f)
        \/ InsertRow(f)
        \/ BeginUpdateUser(f)
        \/ CheckNewEmail(f)
        \/ StoreUser(f)
        \/ DeleteRow(f)

SpecRace == InitHandler /\ [][NextRace]_vars

NextUpdate == UpdateUserSeveral

SpecUpdate == InitHandler /\ [][NextUpdate]_vars

NextSession ==
    \/ PostLogin
    \/ Tick
    \/ UpdateUser /\ OnTokenHolder(last')
    \/ DeleteUser /\ OnTokenHolder(last')
    \/ PresentToken
    \/ ServeRequireAuth
    \/ ServeEndpoint

\* The server with some accounts registered and tokens that live a second.
InitSession ==
    /\ InitToken
    /\ config = [SecretKey |-> "secret-key-1", TokenDuration |-> TicksPerSecond,
                 Issuer |-> ""]
    /\ InitGate
    /\ \E db \in SeededDatabases : users = db.users /\ nextId = db.nextId
    /\ ops = 0
    /\ last = Nil
    /\ response = Nil
    /\ inflight = [f \in Flows |-> Idle]

SpecSession == InitSession /\ [][NextSession]_vars

NextOwn ==
    \/ NewChangePasswordRequest
    \/ ServeRequireAuth
    \/ ServeChangePassword

SpecOwn == InitHandler /\ [][NextOwn]_vars

====
